---- MODULE Spec2Model ----
(***************************************************************************)
(* Campaign send pipeline of autobound-ai (server.ts): the campaign routes *)
(* /api/campaigns/:id/send, /preview and /send-previews, the join table    *)
(* campaign_leads, the lead status field and the messages table.           *)
(*                                                                         *)
(* A request handler is an async function: it runs without interruption    *)
(* up to each await (content generation, delivery, pacing delay).  Each    *)
(* action below is one such uninterrupted stretch of a handler.            *)
(*                                                                         *)
(* Texts (templates, subjects, bodies) are sequences of tokens; a token is *)
(* a literal word or a {{placeholder}}.                                    *)
(***************************************************************************)
EXTENDS Integers, Sequences, FiniteSets, TLC

\* ----- bounds of the model
NumLeads == 2
MaxRequests == 1

\* longest leadIds list of a request
MaxIds == 2

LeadIds == 1..NumLeads
\* an id no row of the leads table has (stmtGetLeadById.get returns undefined)
GhostLead == 0

VARIABLES
  leads,           \* leads table: id -> [email, phone, status, lead_score, follow_up_count, website, rating]
  campaign,        \* the campaigns row under test
  campaign_leads,  \* campaign_leads rows of that campaign: lead id -> [status, sent_at]
  messages,        \* messages table, in insertion order
  settings,        \* settings store, as far as delivery reads it
  run,             \* the request handler in flight (locals of the async handler)
  nreq             \* number of accepted requests that write messages

vars == <<leads, campaign, campaign_leads, messages, settings, run, nreq>>

\* ----- value domains
validStatuses == <<"new", "enriched", "emailed", "replied", "interested", "booked", "lost">>
CampaignStatuses == {"draft", "active", "paused", "completed"}
RowStatuses == {"absent", "pending", "sent", "failed"}
SendModes == {"bulk", "drip"}
DripMinutes == {0, 1, 10}

BusinessNames == <<"Acme", "Bolt", "Core", "Dyna", "Echo", "Flux">>
BusinessName(l) == BusinessNames[l]
Industry == "plumbing"

SubjectTemplates == {<<>>, <<"Hello", "{{business_name}}">>}
BodyTemplates == {<<>>, <<"We help", "{{industry}}", "{{unknown}}">>}

\* outcomes of the awaited external calls
GenOutcomes == {"ok", "nojson", "throw"}
DeliveryOutcomes == {"ok", "rejected", "throw"}

\* ----- pure helpers

\* JS truthiness of a string: '' is falsy
Truthy(text) == text # <<>>

\* rec.f || '': a property the object does not have reads as undefined
Field(rec, f) == IF f \in DOMAIN rec THEN rec[f] ELSE ""

\* interpolateTemplate (inner helper used by the campaign routes): the chain
\* of .replace(/\{\{key\}\}/g, value) calls, in the order of the source
Replacements(row, sett) ==
  << <<"{{business_name}}", Field(row, "business_name")>>,
     <<"{{industry}}", Field(row, "industry")>>,
     <<"{{location}}", Field(row, "location")>>,
     <<"{{sender_name}}", Field(sett, "sender_name")>>,
     <<"{{company_name}}", Field(sett, "company_name")>>,
     <<"{{service}}", Field(sett, "service_description")>>,
     <<"{{booking_link}}", Field(sett, "booking_link")>>,
     <<"{{pain_points}}", Field(row, "pain_points")>>,
     <<"{{services}}", Field(row, "services")>> >>

\* what String.prototype.replace inserts for a replacement string: the empty
\* string inserts nothing, $$ inserts a dollar sign, $& inserts the matched
\* text, any other text is inserted as it is
ReplacementText(value, match) ==
  CASE value = "" -> <<>>
    [] value = "$$" -> <<"$">>
    [] value = "$&" -> <<match>>
    [] OTHER -> <<value>>

\* text.replace(/key/g, value): every occurrence, left to right
RECURSIVE replaceAll(_, _, _)
replaceAll(text, key, value) ==
  IF text = <<>> THEN <<>>
  ELSE (IF Head(text) = key THEN ReplacementText(value, key) ELSE <<Head(text)>>)
         \o replaceAll(Tail(text), key, value)

\* the calls from the k-th on, each applied to the result of the one before
RECURSIVE replaceChain(_, _, _)
replaceChain(text, reps, k) ==
  IF k > Len(reps) THEN text
  ELSE replaceChain(replaceAll(text, reps[k][1], reps[k][2]), reps, k + 1)

interpolateTemplate(template, row, sett) ==
  replaceChain(template, Replacements(row, sett), 1)

\* what the Content Generator returns for a lead when it succeeds
GeneratedSubject(row) == <<"AI subject for", row.business_name>>
GeneratedBody(row) == <<"AI body for", row.business_name>>

\* `Subject: ${subject}\n\n${body}`
fullContent(subject, body) == <<"Subject: ">> \o subject \o <<"\n\n">> \o body

\* a delivery branch that prefers the SMTP relay
ProviderSmtpFirst(zohoKey, transporter, email) ==
  IF transporter /\ email THEN "smtp"
  ELSE IF zohoKey /\ email THEN "zoho"
  ELSE "none"

\* a delivery branch that does not look at the recipient's address
ProviderWithoutAddress(zohoKey, transporter, email) ==
  IF zohoKey THEN "zoho"
  ELSE IF transporter THEN "smtp"
  ELSE "none"

\* a branch that never looks at the API key
ProviderSmtpOnly(zohoKey, transporter, email) ==
  IF transporter /\ email THEN "smtp" ELSE "none"

\* the delivery branch taken for one recipient:
\*   if (zohoKey && email) ... else if (transporter && email) ...
Provider(zohoKey, transporter, email) ==
  IF zohoKey /\ email THEN "zoho"
  ELSE IF transporter /\ email THEN "smtp"
  ELSE "none"

\* getMailTransporter: null unless smtp_host and smtp_user are configured
getMailTransporter(sett) == sett.smtp

\* emailSent after the delivery branch
EmailSent(provider, outcome) == provider # "none" /\ outcome = "ok"

\* outcomes each provider can produce (sendMail resolves or throws)
OutcomesOf(provider) ==
  IF provider = "zoho" THEN DeliveryOutcomes
  ELSE IF provider = "smtp" THEN {"ok", "throw"}
  ELSE {"skipped"}

\* program constants of the pacing code
DefaultDripMinutes == 5
MaxDripDelayMs == 300000
BulkSafetyDelayMs == 2000

\* (campaign.drip_delay_minutes || 5) * 60 * 1000
DripDelayMs(c) ==
  (IF c.drip_delay_minutes = 0 THEN DefaultDripMinutes ELSE c.drip_delay_minutes) * 60 * 1000

Min(a, b) == IF a < b THEN a ELSE b

\* a drip delay that is not capped
SendDelayMsUncapped(c) == DripDelayMs(c)

\* setTimeout argument of the drip delay in POST /api/campaigns/:id/send
SendDelayMs(c) == Min(DripDelayMs(c), MaxDripDelayMs)

\* a pacing that knows only the drip delay
PreviewsDelayMsDripOnly(c) == DripDelayMs(c)

\* setTimeout argument of the safety delay in POST /api/campaigns/:id/send-previews
PreviewsDelayMs(c) == IF c.send_mode = "drip" THEN DripDelayMs(c) ELSE BulkSafetyDelayMs

\* the branch condition inverted
UseTemplatesInverted(c) == ~(Truthy(c.subject_template) /\ Truthy(c.body_template))

\* if (subject && body): both templates have content
UseTemplates(c) == Truthy(c.subject_template) /\ Truthy(c.body_template)

\* a count that ignores the status
CountRowsAnyStatus(cl, st) == Cardinality({l \in LeadIds : cl[l].status # "absent"})

\* SELECT COUNT(*) FROM campaign_leads WHERE campaign_id = ? AND status = ?
CountRows(cl, st) == Cardinality({l \in LeadIds : cl[l].status = st})

\* the row of the join campaign_leads x leads for lead l
JoinRow(l) ==
  [lead_id |-> l, business_name |-> BusinessName(l), industry |-> Industry,
   email |-> leads[l].email, lead_score |-> leads[l].lead_score]

\* a selection that takes every row of the campaign, whatever its status
PendingIdsAnyStatus == {l \in LeadIds : campaign_leads[l].status # "absent"}

\* a selection that leaves out the rows a handler in flight has loaded
PendingIdsUnclaimed ==
  {l \in LeadIds :
     /\ campaign_leads[l].status = "pending"
     /\ \A p \in DOMAIN run :
          run[p].kind = "send" =>
            \A k \in 1..Len(run[p].pendingLeads) : run[p].pendingLeads[k].lead_id # l}

\* SELECT ... WHERE cl.status = 'pending' ORDER BY l.lead_score DESC:
\* every order of the pending rows that is descending in lead_score
\* (the order among equal scores is not fixed by the query)
PendingIds == {l \in LeadIds : campaign_leads[l].status = "pending" /\ leads[l].exists}

\* a selection without the ORDER BY
PendingSelectionsUnordered ==
  LET n == Cardinality(PendingIds) IN
  {s \in [1..n -> PendingIds] : \A a, b \in 1..n : a # b => s[a] # s[b]}

PendingSelections ==
  LET n == Cardinality(PendingIds) IN
  {s \in [1..n -> PendingIds] :
     /\ \A a, b \in 1..n : a # b => s[a] # s[b]
     /\ \A a, b \in 1..n : a < b => leads[s[a]].lead_score >= leads[s[b]].lead_score}

\* a rollup that completes the campaign whatever is still pending
RollupForcesCompleted(c, cl) ==
  [c EXCEPT !.total_sent = CountRows(cl, "sent"), !.status = "completed"]

\* UPDATE campaigns SET total_sent = ..., status = CASE WHEN pending = 0 THEN 'completed' ELSE status END
Rollup(c, cl) ==
  [c EXCEPT !.total_sent = CountRows(cl, "sent"),
            !.status = IF CountRows(cl, "pending") = 0 THEN "completed" ELSE c.status]

\* stmtGetLeadById.get(id) returns a row
LeadExists(ls, l) == l \in LeadIds /\ ls[l].exists

\* DELETE FROM messages without the WHERE clause
stmtDeleteAllMessages(ms, l) == <<>>

\* stmtDeleteLeadMessages.run(id): DELETE FROM messages WHERE lead_id = ?
stmtDeleteLeadMessages(ms, l) == SelectSeq(ms, LAMBDA m : m.lead_id # l)

\* stmtDeleteLead.run(id): DELETE FROM leads WHERE id = ?
stmtDeleteLead(ls, l) == [ls EXCEPT ![l].exists = FALSE]

\* a status update that is not executed
stmtUpdateLeadStatusSkipped(ls, st, l) == ls

\* stmtUpdateLeadStatus.run(status, id)
stmtUpdateLeadStatus(ls, st, l) ==
  IF LeadExists(ls, l) THEN [ls EXCEPT ![l].status = st] ELSE ls

\* an insert that is not executed
stmtInsertMessageDropped(ms, l, direction, content, intent) == ms

\* stmtInsertMessage.run(lead_id, direction, content, intent)
stmtInsertMessage(ms, l, direction, content, intent) ==
  Append(ms, [lead_id |-> l, direction |-> direction, content |-> content, intent |-> intent])

\* a loop that leaves the row as it is after a send
MarkSentMissing(cl, l) == cl

\* an UPDATE without the lead_id condition: every pending row becomes sent
MarkSentEveryPending(cl, l) ==
  [k \in LeadIds |-> IF cl[k].status = "pending"
                     THEN [status |-> "sent", sent_at |-> TRUE] ELSE cl[k]]

\* UPDATE campaign_leads SET status = 'sent', sent_at = CURRENT_TIMESTAMP WHERE campaign_id = ? AND lead_id = ?
MarkSent(cl, l) ==
  IF l \in LeadIds /\ cl[l].status # "absent"
  THEN [cl EXCEPT ![l] = [status |-> "sent", sent_at |-> TRUE]]
  ELSE cl

\* a catch block that does not update the row
MarkFailedMissing(cl, l) == cl

\* UPDATE campaign_leads SET status = 'failed' WHERE campaign_id = ? AND lead_id = ?
MarkFailed(cl, l) ==
  IF l \in LeadIds /\ cl[l].status # "absent"
  THEN [cl EXCEPT ![l].status = "failed"]
  ELSE cl

\* ----- the handlers in flight
\* request slots: one async handler invocation each
Procs == {1, 2}
\* the slots the operator uses under single-writer use
Writers == {1}

NoCampaign ==
  [status |-> "draft", subject_template |-> <<>>, body_template |-> <<>>,
   send_mode |-> "bulk", drip_delay_minutes |-> 0, total_sent |-> 0]
NoSettings == [zoho_api_key |-> FALSE, smtp |-> FALSE, sender_name |-> ""]
NoResults == [sent |-> 0, failed |-> 0, errors |-> <<>>]
NoStart == [messages |-> 0, rows |-> <<>>, statuses |-> <<>>, nreq |-> 0]

\* const results = { success: 0, failed: 0, errors: [] }
NoTally == [success |-> 0, failed |-> 0, errors |-> <<>>]

\* no enrichment answered yet
NoEnrichment ==
  [lead |-> [email |-> FALSE, phone |-> FALSE, website |-> FALSE, rating |-> 0],
   data |-> [contact_email |-> FALSE, contact_phone |-> FALSE, pain_points |-> 0, services |-> 0],
   lead_score |-> 0]

\* the store as the handler found it when it started (kept for observation
\* only; no handler reads it)
StartOf ==
  [messages |-> Len(messages),
   rows |-> [l \in LeadIds |-> campaign_leads[l].status],
   statuses |-> [l \in LeadIds |-> leads[l].status],
   nreq |-> nreq]

\* locals of a handler that is not running
IdleRun ==
  [kind |-> "none", pc |-> "idle", campaign |-> NoCampaign, settings |-> NoSettings,
   pendingLeads |-> <<>>, i |-> 0,
   subject |-> <<>>, body |-> <<>>, emailSent |-> FALSE,
   results |-> NoResults, previews |-> <<>>,
   attempts |-> <<>>, generated |-> <<>>, interpolated |-> <<>>,
   deliveries |-> <<>>, delays |-> <<>>, response |-> "none",
   leadIds |-> <<>>, added |-> 0, finished |-> 0,
   enrichment |-> NoEnrichment, tally |-> NoTally, resolved |-> <<>>,
   start |-> NoStart]

AllIdle == \A p \in Procs : run[p].pc = "idle"

\* the leads table of the test database: every lead but the second has an
\* email address and a website, and a lead added later has the higher score
InitialLeads ==
  [l \in LeadIds |-> [email |-> (l # 2), phone |-> FALSE, status |-> "new",
                      lead_score |-> 30 + 10 * l, follow_up_count |-> 0,
                      website |-> (l # 2), rating |-> (IF l = 1 THEN 3 ELSE 4),
                      exists |-> TRUE]]

\* the campaign under test, as created by POST /api/campaigns and possibly
\* edited by PATCH /api/campaigns/:id (which can store drip_delay_minutes 0)
TemplatePairs ==
  {<<s, b>> \in SubjectTemplates \X BodyTemplates : Truthy(s) \/ ~Truthy(b)}
Pacings == {<<"bulk", 10>>} \cup {<<"drip", d>> : d \in DripMinutes}
InitialCampaigns ==
  {[status |-> "draft", subject_template |-> t[1], body_template |-> t[2],
    send_mode |-> m[1], drip_delay_minutes |-> m[2], total_sent |-> 0] :
     t \in TemplatePairs, m \in Pacings}

\* delivery settings: nothing configured, SMTP only, or the email API key
\* together with SMTP
InitialSettings ==
  {[zoho_api_key |-> FALSE, smtp |-> FALSE, sender_name |-> "Sam"],
   [zoho_api_key |-> FALSE, smtp |-> TRUE, sender_name |-> "Sam"],
   [zoho_api_key |-> TRUE, smtp |-> TRUE, sender_name |-> "Sam"]}

\* the installations examined: every campaign with both providers
\* configured, and the bulk campaigns with every delivery setting
Installations ==
  {<<c, st>> \in InitialCampaigns \X InitialSettings :
     st.zoho_api_key \/ c.send_mode = "bulk"}

Init ==
  /\ leads = InitialLeads
  /\ \E inst \in Installations : campaign = inst[1] /\ settings = inst[2]
  /\ campaign_leads = [l \in LeadIds |-> [status |-> "absent", sent_at |-> FALSE]]
  /\ messages = <<>>
  /\ run = [p \in Procs |-> IdleRun]
  /\ nreq = 0

\* ----- POST /api/campaigns/:id/leads and DELETE /api/campaigns/:id/leads/:leadId

\* INSERT OR IGNORE INTO campaign_leads (campaign_id, lead_id): a new row is pending
addLeadsToCampaign(ids) ==
  /\ campaign_leads' = [l \in LeadIds |->
        IF l \in ids /\ campaign_leads[l].status = "absent"
        THEN [status |-> "pending", sent_at |-> FALSE]
        ELSE campaign_leads[l]]
  /\ UNCHANGED <<leads, campaign, messages, settings, run, nreq>>

removeLeadFromCampaign(l) ==
  /\ campaign_leads' = [campaign_leads EXCEPT ![l] = [status |-> "absent", sent_at |-> FALSE]]
  /\ UNCHANGED <<leads, campaign, messages, settings, run, nreq>>

\* ----- POST /api/campaigns/:id/send

\* the loop header after recipient i: next recipient, or the rollup after the loop
Advance(r, first) ==
  [r EXCEPT !.i = r.i + 1,
            !.pc = IF r.i + 1 > Len(r.pendingLeads) THEN "rollup" ELSE first]

\* a loop bound that is off by one: also true of the last recipient
MoreRecipientsOffByOne(r) == r.i <= Len(r.pendingLeads)

\* i < pendingLeads.length - 1 (i counted from 0): recipient i is not the last
MoreRecipients(r) == r.i < Len(r.pendingLeads)

\* a catch block that counts the failure and reports nothing
CatchWithoutError(r, name, reason) == [r EXCEPT !.results.failed = @ + 1]

\* a catch that counts the recipient among the sent ones
CatchCountedAsSent(r, name, reason) ==
  [r EXCEPT !.results.sent = @ + 1,
            !.results.errors = Append(@, <<name, reason>>)]

\* catch (err): results.failed++, results.errors.push, row -> failed
Catch(r, name, reason) ==
  [r EXCEPT !.results.failed = @ + 1,
            !.results.errors = Append(@, <<name, reason>>)]

\* an activation that only leaves the draft status
ActivateDraftOnly(c) == IF c.status = "draft" THEN [c EXCEPT !.status = "active"] ELSE c

\* UPDATE campaigns SET status = 'active', updated_at = CURRENT_TIMESTAMP WHERE id = ?
Activate(c) == [c EXCEPT !.status = "active"]

\* an activation placed before the early return
CampaignActivatedFirst(c, n) == Activate(c)

\* the campaign row after the pending rows were loaded: the early return for
\* pendingLeads.length === 0 comes before the activation
CampaignAfterLoad(c, n) == IF n = 0 THEN c ELSE Activate(c)

\* the subject and body a recipient's content resolution ended with
Resolved(l, subject, body) == [lead_id |-> l, subject |-> subject, body |-> body]

\* load the campaign and the pending rows; nothing pending: respond at once;
\* otherwise activate the campaign and enter the loop
SendStart(p) ==
  /\ run[p].pc = "idle"
  /\ nreq' = nreq + 1
  /\ \E sel \in PendingSelections :
       IF Len(sel) = 0
       THEN /\ run' = [run EXCEPT ![p] = [IdleRun EXCEPT !.kind = "send", !.pc = "done",
                         !.campaign = campaign, !.response = "nopending",
                         !.start = StartOf]]
            /\ campaign' = CampaignAfterLoad(campaign, Len(sel))
       ELSE /\ run' = [run EXCEPT ![p] = [IdleRun EXCEPT !.kind = "send", !.pc = "resolve",
                         !.campaign = campaign, !.settings = settings,
                         !.pendingLeads = [k \in 1..Len(sel) |-> JoinRow(sel[k])],
                         !.i = 1, !.start = StartOf]]
            /\ campaign' = CampaignAfterLoad(campaign, Len(sel))
  /\ UNCHANGED <<leads, campaign_leads, messages, settings>>

\* content resolution of recipient i: interpolate when both templates have
\* content, otherwise generate; a generation failure lands in the catch
SendResolve(p) ==
  LET r == run[p]
      cl == r.pendingLeads[r.i]
      c == r.campaign
      r1 == [r EXCEPT !.attempts = Append(@, cl.lead_id)]
  IN
  /\ r.kind = "send" /\ r.pc = "resolve"
  /\ IF UseTemplates(c)
     THEN /\ run' = [run EXCEPT ![p] = [r1 EXCEPT
                       !.subject = interpolateTemplate(c.subject_template, cl, r.settings),
                       !.body = interpolateTemplate(c.body_template, cl, r.settings),
                       !.interpolated = Append(@, cl.lead_id),
                       !.resolved = Append(@, Resolved(cl.lead_id,
                                      interpolateTemplate(c.subject_template, cl, r.settings),
                                      interpolateTemplate(c.body_template, cl, r.settings))),
                       !.pc = "deliver"]]
          /\ UNCHANGED campaign_leads
     ELSE \E g \in GenOutcomes :
            LET r2 == [r1 EXCEPT !.generated = Append(@, cl.lead_id)] IN
            IF g = "ok"
            THEN /\ run' = [run EXCEPT ![p] = [r2 EXCEPT
                              !.subject = GeneratedSubject(cl),
                              !.body = GeneratedBody(cl),
                              !.resolved = Append(@, Resolved(cl.lead_id, GeneratedSubject(cl),
                                                              GeneratedBody(cl))),
                              !.pc = "deliver"]]
                 /\ UNCHANGED campaign_leads
            ELSE /\ run' = [run EXCEPT ![p] =
                              Advance(Catch(r2, cl.business_name,
                                IF g = "nojson" THEN "AI failed to generate email" ELSE "error"),
                                "resolve")]
                 /\ campaign_leads' = MarkFailed(campaign_leads, cl.lead_id)
  /\ UNCHANGED <<leads, campaign, messages, settings, nreq>>

\* delivery of recipient i through the configured provider (a provider error
\* is caught inside the branch and only leaves emailSent false), then the
\* message is recorded, the row marked sent, the lead marked emailed and the
\* recipient counted; in drip mode the handler then waits before the next one
SendDeliver(p) ==
  LET r == run[p]
      cl == r.pendingLeads[r.i]
      provider == Provider(r.settings.zoho_api_key, getMailTransporter(r.settings), cl.email)
  IN
  /\ r.kind = "send" /\ r.pc = "deliver"
  /\ \E o \in OutcomesOf(provider) :
       LET r1 == [r EXCEPT
                    !.emailSent = EmailSent(provider, o),
                    !.deliveries = IF provider = "none" THEN @
                                   ELSE Append(@, [lead_id |-> cl.lead_id, provider |-> provider,
                                                   subject |-> r.subject, body |-> r.body,
                                                   outcome |-> o]),
                    !.results.sent = @ + 1]
       IN run' = [run EXCEPT ![p] =
                    IF r.campaign.send_mode = "drip" /\ MoreRecipients(r)
                    THEN [r1 EXCEPT !.pc = "delay"]
                    ELSE Advance(r1, "resolve")]
  /\ messages' = stmtInsertMessage(messages, cl.lead_id, "outbound",
                                   fullContent(r.subject, r.body), "campaign")
  /\ campaign_leads' = MarkSent(campaign_leads, cl.lead_id)
  /\ leads' = stmtUpdateLeadStatus(leads, "emailed", cl.lead_id)
  /\ UNCHANGED <<campaign, settings, nreq>>

\* await new Promise(resolve => setTimeout(resolve, Math.min(delayMs, 300000)))
SendDelay(p) ==
  LET r == run[p] IN
  /\ r.kind = "send" /\ r.pc = "delay"
  /\ run' = [run EXCEPT ![p] =
               Advance([r EXCEPT !.delays = Append(@, [after |-> r.i, ms |-> SendDelayMs(r.campaign)])],
                       "resolve")]
  /\ UNCHANGED <<leads, campaign, campaign_leads, messages, settings, nreq>>

\* after the loop: campaign stats, then res.json({ success: true, ...results })
SendFinish(p) ==
  LET r == run[p] IN
  /\ r.kind = "send" /\ r.pc = "rollup"
  /\ campaign' = Rollup(campaign, campaign_leads)
  /\ run' = [run EXCEPT ![p] = [r EXCEPT !.pc = "done", !.response = "ok"]]
  /\ UNCHANGED <<leads, campaign_leads, messages, settings, nreq>>

\* the response has been delivered; the handler's locals are gone
Return(p) ==
  /\ run[p].pc = "done"
  /\ run' = [run EXCEPT ![p] = IdleRun]
  /\ UNCHANGED <<leads, campaign, campaign_leads, messages, settings, nreq>>

\* ----- POST /api/campaigns/:id/preview

\* one EmailPreview item
PreviewItem(cl, subject, body) ==
  [lead_id |-> cl.lead_id, business_name |-> cl.business_name, email |-> cl.email,
   lead_score |-> cl.lead_score, subject |-> subject, body |-> body, selected |-> TRUE]

\* a preview that activates the campaign as a send does
CampaignActivatedByPreview(c, n) == CampaignAfterLoad(c, n)

\* the campaign row after the preview loaded the pending rows: the handler
\* has no UPDATE
CampaignAfterPreviewLoad(c, n) == c

\* load the campaign and the pending rows; nothing pending: { previews: [] }
PreviewStart(p) ==
  /\ run[p].pc = "idle"
  /\ \E sel \in PendingSelections :
       /\ run' = [run EXCEPT ![p] =
                 IF Len(sel) = 0
                 THEN [IdleRun EXCEPT !.kind = "preview", !.pc = "done",
                                      !.campaign = campaign, !.response = "nopending"]
                 ELSE [IdleRun EXCEPT !.kind = "preview", !.pc = "resolve",
                                      !.campaign = campaign, !.settings = settings,
                                      !.pendingLeads = [k \in 1..Len(sel) |-> JoinRow(sel[k])],
                                      !.i = 1, !.start = StartOf]]
       /\ campaign' = CampaignAfterPreviewLoad(campaign, Len(sel))
  /\ UNCHANGED <<leads, campaign_leads, messages, settings, nreq>>

\* content resolution of one pending row into a preview item; a generation
\* failure yields a placeholder item; after the last row the list is returned
PreviewResolve(p) ==
  LET r == run[p]
      cl == r.pendingLeads[r.i]
      c == r.campaign
      last == r.i = Len(r.pendingLeads)
      Push(rr, subject, body) ==
        [rr EXCEPT !.previews = Append(@, PreviewItem(cl, subject, body)),
                   !.attempts = Append(@, cl.lead_id),
                   !.i = @ + 1,
                   !.pc = IF last THEN "done" ELSE "resolve",
                   !.response = IF last THEN "ok" ELSE @]
  IN
  /\ r.kind = "preview" /\ r.pc = "resolve"
  /\ IF UseTemplates(c)
     THEN run' = [run EXCEPT ![p] =
                    Push([r EXCEPT !.interpolated = Append(@, cl.lead_id)],
                         interpolateTemplate(c.subject_template, cl, r.settings),
                         interpolateTemplate(c.body_template, cl, r.settings))]
     ELSE \E g \in GenOutcomes :
            LET r2 == [r EXCEPT !.generated = Append(@, cl.lead_id)] IN
            run' = [run EXCEPT ![p] =
                      CASE g = "ok" -> Push(r2, GeneratedSubject(cl), GeneratedBody(cl))
                        [] g = "nojson" ->
                             Push(r2, <<"Quick question for", cl.business_name>>,
                                      <<"(AI generation failed - edit this manually)">>)
                        [] OTHER ->
                             Push(r2, <<"Follow up with", cl.business_name>>,
                                      <<"(Error generating: error)">>)]
  /\ UNCHANGED <<leads, campaign, campaign_leads, messages, settings, nreq>>

\* ----- POST /api/campaigns/:id/send-previews

\* lead ids a submitted preview may carry
PreviewLeadIds == LeadIds \cup {GhostLead}
PreviewName(l) == IF l \in LeadIds THEN BusinessName(l) ELSE "Nobody"

\* texts of a submitted preview: the operator edited the preview of the first
\* lead (and typed a placeholder token into it), the others are as previewed
Edited(l) == l = 1
PreviewSubject(l) ==
  IF Edited(l) THEN <<"Edited for", "{{business_name}}">> ELSE <<"Hello", PreviewName(l)>>
PreviewBody(l) ==
  IF Edited(l) THEN <<"Edited body", PreviewName(l), "{{industry}}">> ELSE <<"We help", Industry>>

\* the request body: one preview per lead id, in ascending id order, the
\* previews of the leads in sel selected
SubmittedPreviews(sel) ==
  LET ids == [k \in 1..Cardinality(PreviewLeadIds) |-> k - 1] IN
  [k \in 1..Len(ids) |->
     [lead_id |-> ids[k], subject |-> PreviewSubject(ids[k]),
      body |-> PreviewBody(ids[k]), selected |-> ids[k] \in sel]]

\* a send step that runs the interpolator over the submitted text again
PreviewsTextReinterpolated(pv, row, sett) ==
  [subject |-> interpolateTemplate(pv.subject, row, sett),
   body |-> interpolateTemplate(pv.body, row, sett)]

\* the text sent and recorded for a selected preview: p.subject and p.body as submitted
PreviewsText(pv, row, sett) == [subject |-> pv.subject, body |-> pv.body]

\* a handler that forgets the filter
SelectedPreviewsUnfiltered(previews) == previews

\* previews.filter(p => p.selected)
SelectedPreviews(previews) == SelectSeq(previews, LAMBDA pv : pv.selected)

\* load the campaign, filter the selected previews, activate the campaign
PreviewsStartWith(p, previews) ==
  LET selectedPreviews == SelectedPreviews(previews) IN
  /\ run[p].pc = "idle"
  /\ nreq' = nreq + 1
  /\ campaign' = [campaign EXCEPT !.status = "active"]
  /\ run' = [run EXCEPT ![p] = [IdleRun EXCEPT !.kind = "previews",
               !.pc = IF Len(selectedPreviews) = 0 THEN "rollup" ELSE "deliver",
               !.campaign = campaign, !.settings = settings,
               !.previews = previews, !.pendingLeads = selectedPreviews, !.i = 1,
               !.start = StartOf]]
  /\ UNCHANGED <<leads, campaign_leads, messages, settings>>

\* the request with one preview per lead id in ascending id order
PreviewsStart(p, sel) == PreviewsStartWith(p, SubmittedPreviews(sel))

\* the orders in which a request body can list previews of distinct lead ids
PreviewOrders ==
  UNION {{s \in [1..n -> PreviewLeadIds] : \A a, b \in 1..n : a # b => s[a] # s[b]} :
           n \in 0..Cardinality(PreviewLeadIds)}

\* the request body listing the previews in the given order, those of the
\* leads in sel selected
OrderedPreviews(order, sel) ==
  [k \in 1..Len(order) |->
     [lead_id |-> order[k], subject |-> PreviewSubject(order[k]),
      body |-> PreviewBody(order[k]), selected |-> order[k] \in sel]]

\* look the lead up (a missing lead is skipped); deliver the submitted text
\* (provider errors are swallowed), record the message, mark the row sent and
\* the lead emailed, count it; then wait before the next selected preview
PreviewsDeliver(p) ==
  LET r == run[p]
      pv == r.pendingLeads[r.i]
  IN
  /\ r.kind = "previews" /\ r.pc = "deliver"
  /\ IF ~LeadExists(leads, pv.lead_id)
     THEN /\ run' = [run EXCEPT ![p] = Advance(r, "deliver")]
          /\ UNCHANGED <<leads, campaign_leads, messages>>
     ELSE LET lead == leads[pv.lead_id]
              provider == Provider(r.settings.zoho_api_key, getMailTransporter(r.settings), lead.email)
              text == PreviewsText(pv, JoinRow(pv.lead_id), r.settings)
          IN
          /\ \E o \in OutcomesOf(provider) :
               LET r1 == [r EXCEPT
                            !.attempts = Append(@, pv.lead_id),
                            !.emailSent = EmailSent(provider, o),
                            !.deliveries = IF provider = "none" THEN @
                                           ELSE Append(@, [lead_id |-> pv.lead_id, provider |-> provider,
                                                           subject |-> text.subject, body |-> text.body,
                                                           outcome |-> o]),
                            !.results.sent = @ + 1]
               IN run' = [run EXCEPT ![p] =
                            IF MoreRecipients(r)
                            THEN [r1 EXCEPT !.pc = "delay"]
                            ELSE Advance(r1, "deliver")]
          /\ messages' = stmtInsertMessage(messages, pv.lead_id, "outbound",
                                           fullContent(text.subject, text.body), "campaign")
          /\ campaign_leads' = MarkSent(campaign_leads, pv.lead_id)
          /\ leads' = stmtUpdateLeadStatus(leads, "emailed", pv.lead_id)
  /\ UNCHANGED <<campaign, settings, nreq>>

\* await new Promise(resolve => setTimeout(resolve, delayMs))
PreviewsDelay(p) ==
  LET r == run[p] IN
  /\ r.kind = "previews" /\ r.pc = "delay"
  /\ run' = [run EXCEPT ![p] =
               Advance([r EXCEPT !.delays = Append(@, [after |-> r.i, ms |-> PreviewsDelayMs(r.campaign)])],
                       "deliver")]
  /\ UNCHANGED <<leads, campaign, campaign_leads, messages, settings, nreq>>

\* after the loop: campaign stats, then res.json({ success: true, ...results })
PreviewsFinish(p) ==
  LET r == run[p] IN
  /\ r.kind = "previews" /\ r.pc = "rollup"
  /\ campaign' = Rollup(campaign, campaign_leads)
  /\ run' = [run EXCEPT ![p] = [r EXCEPT !.pc = "done", !.response = "ok"]]
  /\ UNCHANGED <<leads, campaign_leads, messages, settings, nreq>>

\* ----- lead routes: status update, enrichment, single email


\* facts the enrichment analysis may extract from a website
EnrichmentData ==
  {[contact_email |-> TRUE, contact_phone |-> FALSE, pain_points |-> 3, services |-> 1],
   [contact_email |-> FALSE, contact_phone |-> TRUE, pain_points |-> 0, services |-> 4]}

\* a score whose pain-point part is not capped
calculateLeadScoreUncapped(lead, data) ==
  LET s1 == IF lead.email \/ data.contact_email THEN 25 ELSE 0
      s2 == IF lead.phone \/ data.contact_phone THEN 10 ELSE 0
      s3 == IF lead.website THEN 10 ELSE 0
      s4 == IF lead.rating >= 4 THEN 15 ELSE IF lead.rating >= 3 THEN 5 ELSE 0
      s5 == data.pain_points * 10
      s6 == Min(data.services * 5, 15)
  IN Min(s1 + s2 + s3 + s4 + s5 + s6, 100)

\* calculateLeadScore(lead, enrichmentData)
calculateLeadScore(lead, data) ==
  LET s1 == IF lead.email \/ data.contact_email THEN 25 ELSE 0
      s2 == IF lead.phone \/ data.contact_phone THEN 10 ELSE 0
      s3 == IF lead.website THEN 10 ELSE 0
      s4 == IF lead.rating >= 4 THEN 15 ELSE IF lead.rating >= 3 THEN 5 ELSE 0
      s5 == Min(data.pain_points * 10, 25)
      s6 == Min(data.services * 5, 15)
  IN Min(s1 + s2 + s3 + s4 + s5 + s6, 100)

\* stmtUpdateEnrichment.run(email, phone, metadata, score, id)
stmtUpdateEnrichment(ls, email, phone, score, l) ==
  [ls EXCEPT ![l].email = email \/ @, ![l].phone = phone \/ @,
             ![l].lead_score = score, ![l].status = "enriched"]

\* DELETE /api/leads/:id: 404 for an unknown lead; otherwise the lead's
\* messages and then the lead are deleted (the handler writes no other table)
DeleteLead(l) ==
  /\ AllIdle
  /\ LeadExists(leads, l)
  /\ messages' = stmtDeleteLeadMessages(messages, l)
  /\ leads' = stmtDeleteLead(leads, l)
  /\ UNCHANGED <<campaign, campaign_leads, settings, run, nreq>>

\* PATCH /api/leads/:id/status: the operator sets any valid status
UpdateLeadStatus(l, st) ==
  /\ AllIdle
  /\ leads' = stmtUpdateLeadStatus(leads, st, l)
  /\ UNCHANGED <<campaign, campaign_leads, messages, settings, run, nreq>>

\* POST /api/agents/enrich: fetch the website, analyse it, store the facts;
\* a lead without website, a failed fetch or an unparsable analysis changes nothing
Enrich(l, ok, data) ==
  /\ AllIdle
  /\ IF leads[l].website /\ ok
     THEN leads' = stmtUpdateEnrichment(leads, data.contact_email, data.contact_phone,
                     calculateLeadScore(leads[l], data), l)
     ELSE UNCHANGED leads
  /\ UNCHANGED <<campaign, campaign_leads, messages, settings, run, nreq>>

\* the scoring facts of a leads row
ScoringFacts(lead) ==
  [email |-> lead.email, phone |-> lead.phone, website |-> lead.website, rating |-> lead.rating]

\* POST /api/agents/enrich with its answer: 404 for an unknown lead; 500 for a
\* lead without website, a failed fetch or an unparsable analysis; otherwise
\* the facts are stored with the score and answered { success, data, lead_score }
EnrichRequest(p, l, outcome, data) ==
  /\ run[p].pc = "idle"
  /\ IF ~LeadExists(leads, l)
     THEN /\ run' = [run EXCEPT ![p] = [IdleRun EXCEPT !.kind = "enrich", !.pc = "done",
                                                       !.response = "404"]]
          /\ UNCHANGED leads
     ELSE IF ~leads[l].website \/ outcome # "ok"
     THEN /\ run' = [run EXCEPT ![p] = [IdleRun EXCEPT !.kind = "enrich", !.pc = "done",
                                                       !.response = "500"]]
          /\ UNCHANGED leads
     ELSE LET score == calculateLeadScore(leads[l], data) IN
          /\ leads' = stmtUpdateEnrichment(leads, data.contact_email, data.contact_phone, score, l)
          /\ run' = [run EXCEPT ![p] = [IdleRun EXCEPT !.kind = "enrich", !.pc = "done",
                        !.response = "ok",
                        !.enrichment = [lead |-> ScoringFacts(leads[l]), data |-> data,
                                        lead_score |-> score]]]
  /\ UNCHANGED <<campaign, campaign_leads, messages, settings, nreq>>

\* ----- POST /api/agents/bulk-enrich and POST /api/agents/bulk-email

\* the non-empty leadIds lists of a bulk request; an id may name no lead and
\* may occur twice
BulkIdLists == UNION {[1..n -> LeadIds \cup {GhostLead}] : n \in 1..MaxIds}

\* an item that is passed over without being counted
SkipItemUncounted(r) == [r EXCEPT !.attempts = Append(@, r.leadIds[r.i]), !.i = @ + 1]

\* { results.failed++; continue; } and the else branch results.failed++
SkipItem(r) ==
  [r EXCEPT !.tally.failed = @ + 1,
            !.attempts = Append(@, r.leadIds[r.i]), !.i = @ + 1]

\* catch (err): results.failed++; results.errors.push(`Lead ${id}: ${err.message}`)
CatchItem(r) ==
  [r EXCEPT !.tally.failed = @ + 1,
            !.tally.errors = Append(@, <<r.leadIds[r.i], "error">>),
            !.attempts = Append(@, r.leadIds[r.i]), !.i = @ + 1]

\* results.success++
CountItem(r) ==
  [r EXCEPT !.tally.success = @ + 1,
            !.attempts = Append(@, r.leadIds[r.i]), !.i = @ + 1]

\* the request is accepted: the loop starts at the first id
BulkStart(p, kind, ids) ==
  /\ run[p].pc = "idle"
  /\ run' = [run EXCEPT ![p] = [IdleRun EXCEPT !.kind = kind, !.pc = "item",
                                               !.settings = settings,
                                               !.leadIds = ids, !.i = 1, !.start = StartOf]]
  /\ UNCHANGED <<leads, campaign, campaign_leads, messages, settings>>

BulkEnrichStart(p, ids) == BulkStart(p, "bulk-enrich", ids) /\ UNCHANGED nreq

BulkEmailStart(p, ids) == BulkStart(p, "bulk-email", ids) /\ nreq' = nreq + 1

\* bulk-enrich, one id: a missing lead or a lead without website is counted
\* failed; a failed fetch lands in the catch; an unparsable analysis is
\* counted failed; otherwise the facts and the score are stored
BulkEnrichItem(p) ==
  LET r == run[p]
      id == r.leadIds[r.i]
  IN
  /\ r.kind = "bulk-enrich" /\ r.pc = "item" /\ r.i <= Len(r.leadIds)
  /\ IF ~LeadExists(leads, id) \/ ~leads[id].website
     THEN /\ run' = [run EXCEPT ![p] = SkipItem(r)]
          /\ UNCHANGED leads
     ELSE \E outcome \in GenOutcomes, data \in EnrichmentData :
            CASE outcome = "ok" ->
                   /\ leads' = stmtUpdateEnrichment(leads, data.contact_email, data.contact_phone,
                                                    calculateLeadScore(leads[id], data), id)
                   /\ run' = [run EXCEPT ![p] = CountItem(r)]
              [] outcome = "nojson" ->
                   /\ run' = [run EXCEPT ![p] = SkipItem(r)]
                   /\ UNCHANGED leads
              [] OTHER ->
                   /\ run' = [run EXCEPT ![p] = CatchItem(r)]
                   /\ UNCHANGED leads
  /\ UNCHANGED <<campaign, campaign_leads, messages, settings, nreq>>

\* bulk-email, one id: a missing lead is counted failed; a thrown generation
\* lands in the catch; an unparsable one is counted failed; otherwise the
\* pitch is recorded, the lead marked emailed, SMTP tried (its error
\* swallowed) and the id counted
BulkEmailItem(p) ==
  LET r == run[p]
      id == r.leadIds[r.i]
  IN
  /\ r.kind = "bulk-email" /\ r.pc = "item" /\ r.i <= Len(r.leadIds)
  /\ IF ~LeadExists(leads, id)
     THEN /\ run' = [run EXCEPT ![p] = SkipItem(r)]
          /\ UNCHANGED <<leads, messages>>
     ELSE \E outcome \in GenOutcomes :
            CASE outcome = "ok" ->
                   LET row == JoinRow(id)
                       provider == Provider(FALSE, getMailTransporter(r.settings), leads[id].email)
                   IN
                   /\ messages' = stmtInsertMessage(messages, id, "outbound",
                                     fullContent(GeneratedSubject(row), GeneratedBody(row)), "pitch")
                   /\ leads' = stmtUpdateLeadStatus(leads, "emailed", id)
                   /\ \E o \in OutcomesOf(provider) :
                        run' = [run EXCEPT ![p] =
                                  [CountItem(r) EXCEPT !.deliveries =
                                     IF provider = "none" THEN @
                                     ELSE Append(@, [lead_id |-> id, provider |-> provider,
                                                     subject |-> GeneratedSubject(row),
                                                     body |-> GeneratedBody(row), outcome |-> o])]]
              [] outcome = "nojson" ->
                   /\ run' = [run EXCEPT ![p] = SkipItem(r)]
                   /\ UNCHANGED <<leads, messages>>
              [] OTHER ->
                   /\ run' = [run EXCEPT ![p] = CatchItem(r)]
                   /\ UNCHANGED <<leads, messages>>
  /\ UNCHANGED <<campaign, campaign_leads, settings, nreq>>

\* after the loop: res.json(results)
BulkFinish(p) ==
  LET r == run[p] IN
  /\ r.kind \in {"bulk-enrich", "bulk-email"} /\ r.pc = "item" /\ r.i > Len(r.leadIds)
  /\ run' = [run EXCEPT ![p] = [r EXCEPT !.pc = "done", !.response = "ok"]]
  /\ UNCHANGED <<leads, campaign, campaign_leads, messages, settings, nreq>>

\* POST /api/agents/send-email: record the message, try SMTP, then count a
\* follow-up or mark the lead emailed
SendEmail(l, isFollowUp) ==
  /\ AllIdle
  /\ nreq' = nreq + 1
  /\ messages' = stmtInsertMessage(messages, l, "outbound",
                   fullContent(<<"Pitch">>, <<"Pitch body">>),
                   IF isFollowUp THEN "follow-up" ELSE "pitch")
  /\ leads' = IF isFollowUp
              THEN [leads EXCEPT ![l].follow_up_count = @ + 1]
              ELSE stmtUpdateLeadStatus(leads, "emailed", l)
  /\ UNCHANGED <<campaign, campaign_leads, settings, run>>

\* ----- POST /api/campaigns/:id/leads, with its request body and its response


\* the leadIds lists a request may carry (a lead id may occur twice)
LeadIdLists == UNION {[1..n -> LeadIds] : n \in 0..MaxIds}

\* the unique index of campaign_leads over (campaign_id, lead_id): an insert
\* conflicts when the pair already has a row
PairExists(cl, l) == cl[l].status # "absent"

\* an insert that replaces the row of the pair
InsertOrReplace(cl, l) ==
  [table |-> [cl EXCEPT ![l] = [status |-> "pending", sent_at |-> FALSE]], changes |-> 1]

\* INSERT OR IGNORE INTO campaign_leads (campaign_id, lead_id) VALUES (?, ?):
\* the table after the statement and the statement's changes
InsertOrIgnore(cl, l) ==
  IF PairExists(cl, l)
  THEN [table |-> cl, changes |-> 0]
  ELSE [table |-> [cl EXCEPT ![l] = [status |-> "pending", sent_at |-> FALSE]], changes |-> 1]

\* insertMany: for (const lid of ids) { r = insert.run(id, lid); if (r.changes > 0) added++ }
RECURSIVE insertMany(_, _)
insertMany(cl, ids) ==
  IF ids = <<>>
  THEN [table |-> cl, added |-> 0]
  ELSE LET r == InsertOrIgnore(cl, Head(ids))
           rest == insertMany(r.table, Tail(ids))
       IN [table |-> rest.table, added |-> (IF r.changes > 0 THEN 1 ELSE 0) + rest.added]

\* the whole route: run the transaction, respond { success: true, added }
AddLeads(p, ids) ==
  /\ run[p].pc = "idle"
  /\ LET r == insertMany(campaign_leads, ids) IN
       /\ campaign_leads' = r.table
       /\ run' = [run EXCEPT ![p] = [IdleRun EXCEPT !.kind = "add", !.pc = "done",
                    !.leadIds = ids, !.added = r.added, !.response = "ok",
                    !.start = StartOf]]
  /\ UNCHANGED <<leads, campaign, messages, settings, nreq>>

\* ----- the single-writer system: one request at a time, and at most
\* MaxRequests requests that write messages
Next ==
  \/ \E ids \in SUBSET LeadIds : AllIdle /\ ids # {} /\ addLeadsToCampaign(ids)
  \/ \E l \in LeadIds : AllIdle /\ campaign_leads[l].status # "absent" /\ removeLeadFromCampaign(l)
  \/ \E p \in Writers : AllIdle /\ nreq < MaxRequests /\ SendStart(p)
  \/ \E p \in Writers : SendResolve(p)
  \/ \E p \in Writers : SendDeliver(p)
  \/ \E p \in Writers : SendDelay(p)
  \/ \E p \in Writers : SendFinish(p)
  \/ \E p \in Writers : AllIdle /\ PreviewStart(p)
  \/ \E p \in Writers : PreviewResolve(p)
  \/ \E p \in Writers, sel \in SUBSET PreviewLeadIds :
       AllIdle /\ nreq < MaxRequests /\ PreviewsStart(p, sel)
  \/ \E p \in Writers : PreviewsDeliver(p)
  \/ \E p \in Writers : PreviewsDelay(p)
  \/ \E p \in Writers : PreviewsFinish(p)
  \/ \E p \in Writers : Return(p)

Spec == Init /\ [][Next]_vars

\* ----- the lead pipeline: the operator also updates, enriches and emails
\* single leads between the campaign requests (one request at a time)
InitLead ==
  /\ Init
  /\ UseTemplates(campaign)
  /\ campaign.send_mode = "drip"
  /\ campaign.drip_delay_minutes = 1

NextLead ==
  \/ \E ids \in SUBSET LeadIds : AllIdle /\ ids # {} /\ addLeadsToCampaign(ids)
  \/ \E l \in LeadIds, st \in {validStatuses[k] : k \in 1..Len(validStatuses)} :
       UpdateLeadStatus(l, st)
  \/ \E l \in LeadIds, ok \in BOOLEAN, data \in EnrichmentData : Enrich(l, ok, data)
  \/ \E l \in LeadIds, isFollowUp \in BOOLEAN : nreq < MaxRequests /\ SendEmail(l, isFollowUp)
  \/ \E p \in Writers : AllIdle /\ nreq < MaxRequests /\ SendStart(p)
  \/ \E p \in Writers : SendResolve(p)
  \/ \E p \in Writers : SendDeliver(p)
  \/ \E p \in Writers : SendDelay(p)
  \/ \E p \in Writers : SendFinish(p)
  \/ \E p \in Writers, sel \in SUBSET PreviewLeadIds :
       AllIdle /\ nreq < MaxRequests /\ PreviewsStart(p, sel)
  \/ \E p \in Writers : PreviewsDeliver(p)
  \/ \E p \in Writers : PreviewsDelay(p)
  \/ \E p \in Writers : PreviewsFinish(p)
  \/ \E p \in Writers : Return(p)

SpecLead == InitLead /\ [][NextLead]_vars

\* ----- assigning leads to a campaign between its send runs: the campaign
\* generates its content and sends through the email API
InitAdd ==
  /\ Init
  /\ ~UseTemplates(campaign)
  /\ campaign.send_mode = "bulk"
  /\ settings.zoho_api_key

NextAdd ==
  \/ \E p \in Writers, ids \in LeadIdLists : AllIdle /\ AddLeads(p, ids)
  \/ \E l \in LeadIds : AllIdle /\ campaign_leads[l].status # "absent" /\ removeLeadFromCampaign(l)
  \/ \E p \in Writers : AllIdle /\ nreq < MaxRequests /\ SendStart(p)
  \/ \E p \in Writers : SendResolve(p)
  \/ \E p \in Writers : SendDeliver(p)
  \/ \E p \in Writers : SendFinish(p)
  \/ \E p \in Writers : Return(p)

SpecAdd == InitAdd /\ [][NextAdd]_vars

\* ----- several send runs of one campaign, one after the other: the campaign
\* generates its content, so a recipient can fail, and a later request finds
\* the failed row
MaxRuns == 2

NextRetry ==
  \/ \E ids \in SUBSET LeadIds : AllIdle /\ ids # {} /\ addLeadsToCampaign(ids)
  \/ \E p \in Writers : AllIdle /\ nreq < MaxRuns /\ SendStart(p)
  \/ \E p \in Writers : SendResolve(p)
  \/ \E p \in Writers : SendDeliver(p)
  \/ \E p \in Writers : SendFinish(p)
  \/ \E p \in Writers, sel \in SUBSET PreviewLeadIds :
       AllIdle /\ nreq < MaxRuns /\ PreviewsStart(p, sel)
  \/ \E p \in Writers : PreviewsDeliver(p)
  \/ \E p \in Writers : PreviewsDelay(p)
  \/ \E p \in Writers : PreviewsFinish(p)
  \/ \E p \in Writers : Return(p)

SpecRetry == InitAdd /\ [][NextRetry]_vars

\* ----- a send run cut short by the end of the host process, and the send
\* requests after the restart

\* recipients whose row status the run has written when it stops at its pc,
\* cut statements into the record step of recipient i
FinishedCount(r, cut) ==
  IF r.pc = "resolve" THEN r.i - 1
  ELSE IF r.pc = "deliver" THEN (IF cut >= 2 THEN r.i ELSE r.i - 1)
  ELSE IF r.pc = "delay" THEN r.i
  ELSE Len(r.pendingLeads)

\* the process ends while the handler waits (generation, delivery, drip
\* delay) or between the statements that record recipient i: the message
\* insert, the row update and the lead update are separate statements, so any
\* prefix of them may have run; the store keeps what was written, the
\* handler's locals are kept for observation only
Terminate(p) ==
  LET r == run[p]
      cl == r.pendingLeads[r.i]
  IN
  /\ r.kind = "send" /\ r.pc \in {"resolve", "deliver", "delay", "rollup"}
  /\ \E cut \in 0..3 :
       /\ cut > 0 => r.pc = "deliver"
       /\ messages' = IF cut >= 1
                      THEN stmtInsertMessage(messages, cl.lead_id, "outbound",
                                             fullContent(r.subject, r.body), "campaign")
                      ELSE messages
       /\ campaign_leads' = IF cut >= 2 THEN MarkSent(campaign_leads, cl.lead_id) ELSE campaign_leads
       /\ leads' = IF cut >= 3 THEN stmtUpdateLeadStatus(leads, "emailed", cl.lead_id) ELSE leads
       /\ run' = [run EXCEPT ![p] = [r EXCEPT !.pc = "terminated",
                                               !.finished = FinishedCount(r, cut)]]
  /\ UNCHANGED <<campaign, settings, nreq>>

\* the campaigns that send through the email API, in bulk or one a minute
InitResume ==
  /\ Init
  /\ settings.zoho_api_key
  /\ campaign.send_mode = "drip" => campaign.drip_delay_minutes = 1

\* leads are assigned before the first send; the first request runs in slot
\* 1 and may be cut short, the requests after the restart run in slot 2
NextResume ==
  \/ \E ids \in SUBSET LeadIds : AllIdle /\ nreq = 0 /\ ids # {} /\ addLeadsToCampaign(ids)
  \/ AllIdle /\ nreq < MaxRuns /\ SendStart(1)
  \/ run[1].pc = "terminated" /\ nreq < MaxRuns /\ SendStart(2)
  \/ \E p \in Procs : SendResolve(p)
  \/ \E p \in Procs : SendDeliver(p)
  \/ \E p \in Procs : SendDelay(p)
  \/ \E p \in Procs : SendFinish(p)
  \/ \E p \in Procs : Terminate(p)
  \/ \E p \in Procs : Return(p)

SpecResume == InitResume /\ [][NextResume]_vars

\* ----- two callers: send requests of the same campaign overlap; a handler
\* gives way at each of its awaits
NextConcurrent ==
  \/ \E ids \in SUBSET LeadIds : AllIdle /\ nreq = 0 /\ ids # {} /\ addLeadsToCampaign(ids)
  \/ \E p \in Procs : nreq < MaxRuns /\ SendStart(p)
  \/ \E p \in Procs : SendResolve(p)
  \/ \E p \in Procs : SendDeliver(p)
  \/ \E p \in Procs : SendFinish(p)
  \/ \E p \in Procs : Return(p)

SpecConcurrent == InitAdd /\ [][NextConcurrent]_vars

\* ----- the campaign routes with their request parameters: the id in the
\* path and, for send-previews, the shape of the body

\* req.params.id: the id of the campaign, or an id no campaigns row has
RequestIds == {"campaign", "absent"}

\* req.body.previews: an array, absent, or a value that is not an array
PreviewsShapes == {"array", "missing", "notarray"}

\* a lookup that answers with the campaign whatever the id
CampaignRowsAnyId(cid) == {campaign}

\* db.prepare("SELECT * FROM campaigns WHERE id = ?").get(campaignId): the
\* row, if there is one
CampaignRows(cid) == IF cid = "campaign" THEN {campaign} ELSE {}

\* res.status(code).json({ error }) before anything was read or written
Refuse(p, kind, code) ==
  /\ run[p].pc = "idle"
  /\ run' = [run EXCEPT ![p] = [IdleRun EXCEPT !.kind = kind, !.pc = "done", !.response = code]]
  /\ UNCHANGED <<leads, campaign, campaign_leads, messages, settings, nreq>>

\* POST /api/campaigns/:id/send
SendRequest(p, cid) ==
  IF CampaignRows(cid) = {} THEN Refuse(p, "send", "404") ELSE SendStart(p)

\* POST /api/campaigns/:id/preview
PreviewRequest(p, cid) ==
  IF CampaignRows(cid) = {} THEN Refuse(p, "preview", "404") ELSE PreviewStart(p)

\* POST /api/campaigns/:id/send-previews: the body is examined first
PreviewsRequest(p, cid, shape, sel) ==
  IF shape # "array" THEN Refuse(p, "previews", "400")
  ELSE IF CampaignRows(cid) = {} THEN Refuse(p, "previews", "404")
  ELSE PreviewsStart(p, sel)

NextRequests ==
  \/ \E ids \in SUBSET LeadIds : AllIdle /\ ids # {} /\ addLeadsToCampaign(ids)
  \/ \E p \in Writers, cid \in RequestIds :
       AllIdle /\ nreq < MaxRequests /\ SendRequest(p, cid)
  \/ \E p \in Writers : SendResolve(p)
  \/ \E p \in Writers : SendDeliver(p)
  \/ \E p \in Writers : SendFinish(p)
  \/ \E p \in Writers, cid \in RequestIds : AllIdle /\ PreviewRequest(p, cid)
  \/ \E p \in Writers : PreviewResolve(p)
  \/ \E p \in Writers, cid \in RequestIds, shape \in PreviewsShapes, sel \in SUBSET PreviewLeadIds :
       AllIdle /\ nreq < MaxRequests /\ PreviewsRequest(p, cid, shape, sel)
  \/ \E p \in Writers : PreviewsDeliver(p)
  \/ \E p \in Writers : PreviewsDelay(p)
  \/ \E p \in Writers : PreviewsFinish(p)
  \/ \E p \in Writers : Return(p)

SpecRequests == InitAdd /\ [][NextRequests]_vars

\* ----- previews of a campaign whose leads are enriched (and rescored) in
\* between
NextPreview ==
  \/ \E ids \in SUBSET LeadIds : AllIdle /\ ids # {} /\ addLeadsToCampaign(ids)
  \/ \E l \in LeadIds : AllIdle /\ campaign_leads[l].status # "absent" /\ removeLeadFromCampaign(l)
  \/ \E l \in LeadIds, ok \in BOOLEAN, data \in EnrichmentData : Enrich(l, ok, data)
  \/ \E p \in Writers : AllIdle /\ PreviewStart(p)
  \/ \E p \in Writers : PreviewResolve(p)
  \/ \E p \in Writers : Return(p)

SpecPreview == Init /\ [][NextPreview]_vars

\* ----- the scoring of leads by the enrichment route, over the facts a lead
\* and an analysis of its website can hold

\* most pain points, and most services, an analysis lists
MaxItems == 4

\* ratings of a lead; 0 stands for a lead without rating
Ratings == 0..5

\* the analysis results: contact details found or not, and the number of
\* pain points and of services listed
ScoringData ==
  [contact_email : BOOLEAN, contact_phone : BOOLEAN,
   pain_points : 0..MaxItems, services : 0..MaxItems]

\* the first lead holds any combination of facts, the others are the test leads
InitScore ==
  /\ \E e \in BOOLEAN, ph \in BOOLEAN, w \in BOOLEAN, rt \in Ratings :
       leads = [InitialLeads EXCEPT ![1].email = e, ![1].phone = ph,
                                    ![1].website = w, ![1].rating = rt]
  /\ \E inst \in Installations :
       /\ UseTemplates(inst[1]) /\ inst[1].send_mode = "bulk" /\ inst[2].zoho_api_key
       /\ campaign = inst[1] /\ settings = inst[2]
  /\ campaign_leads = [l \in LeadIds |-> [status |-> "absent", sent_at |-> FALSE]]
  /\ messages = <<>>
  /\ run = [p \in Procs |-> IdleRun]
  /\ nreq = 0

NextScore ==
  \/ \E p \in Writers, l \in LeadIds \cup {GhostLead}, outcome \in GenOutcomes, data \in ScoringData :
       AllIdle /\ EnrichRequest(p, l, outcome, data)
  \/ \E p \in Writers : Return(p)

SpecScore == InitScore /\ [][NextScore]_vars

\* ----- PATCH /api/campaigns/:id

\* status = COALESCE(?, status) with a status in the body; the handler is
\* synchronous and is served whenever no other handler is between two awaits
UpdateCampaignStatus(st) ==
  /\ campaign' = [campaign EXCEPT !.status = st]
  /\ UNCHANGED <<leads, campaign_leads, messages, settings, run, nreq>>

\* ----- send runs while the operator edits the campaign status
NextActivate ==
  \/ \E ids \in SUBSET LeadIds : AllIdle /\ ids # {} /\ addLeadsToCampaign(ids)
  \/ \E st \in CampaignStatuses : st # campaign.status /\ UpdateCampaignStatus(st)
  \/ \E p \in Writers : nreq < MaxRuns /\ SendStart(p)
  \/ \E p \in Writers : SendResolve(p)
  \/ \E p \in Writers : SendDeliver(p)
  \/ \E p \in Writers : SendFinish(p)
  \/ \E p \in Writers : Return(p)

SpecActivate == InitAdd /\ [][NextActivate]_vars

\* ----- sendCampaign with generated content over leads whose status the
\* operator has moved on between the requests
InitLockstep ==
  /\ Init
  /\ ~UseTemplates(campaign)
  /\ settings.zoho_api_key

\* the statuses the operator sets by hand in these runs
OperatorStatuses == {"replied", "booked"}

NextLockstep ==
  \/ \E ids \in SUBSET LeadIds : AllIdle /\ ids # {} /\ addLeadsToCampaign(ids)
  \/ \E l \in LeadIds, st \in OperatorStatuses : UpdateLeadStatus(l, st)
  \/ \E p \in Writers : AllIdle /\ nreq < MaxRequests /\ SendStart(p)
  \/ \E p \in Writers : SendResolve(p)
  \/ \E p \in Writers : SendDeliver(p)
  \/ \E p \in Writers : SendDelay(p)
  \/ \E p \in Writers : SendFinish(p)
  \/ \E p \in Writers : Return(p)

SpecLockstep == InitLockstep /\ [][NextLockstep]_vars

\* ----- the pacing of a bulk campaign: one send request or one send-previews
\* request whose body lists the previews in any order, one of the lead ids
\* unselected
InitPacing ==
  /\ Init
  /\ campaign.send_mode = "bulk"
  /\ settings.zoho_api_key

NextPacing ==
  \/ \E ids \in SUBSET LeadIds : AllIdle /\ ids # {} /\ addLeadsToCampaign(ids)
  \/ \E p \in Writers : AllIdle /\ nreq = 0 /\ SendStart(p)
  \/ \E p \in Writers : SendResolve(p)
  \/ \E p \in Writers : SendDeliver(p)
  \/ \E p \in Writers : SendFinish(p)
  \/ \E p \in Writers, order \in PreviewOrders, unselected \in PreviewLeadIds :
       /\ AllIdle /\ nreq = 0
       /\ PreviewsStartWith(p, OrderedPreviews(order, PreviewLeadIds \ {unselected}))
  \/ \E p \in Writers : PreviewsDeliver(p)
  \/ \E p \in Writers : PreviewsDelay(p)
  \/ \E p \in Writers : PreviewsFinish(p)
  \/ \E p \in Writers : Return(p)

SpecPacing == InitPacing /\ [][NextPacing]_vars

\* ----- every operation that touches a lead or the campaign, one request at
\* a time, with leads being deleted in between
NextLedger ==
  \/ \E ids \in SUBSET LeadIds : AllIdle /\ ids # {} /\ addLeadsToCampaign(ids)
  \/ \E l \in LeadIds : UpdateLeadStatus(l, "replied")
  \/ \E l \in LeadIds, data \in EnrichmentData :
       LeadExists(leads, l) /\ ~data.contact_email /\ Enrich(l, TRUE, data)
  \/ \E l \in LeadIds, isFollowUp \in BOOLEAN :
       LeadExists(leads, l) /\ nreq = 0 /\ SendEmail(l, isFollowUp)
  \/ \E l \in LeadIds : DeleteLead(l)
  \/ \E p \in Writers : AllIdle /\ nreq = 0 /\ SendStart(p)
  \/ \E p \in Writers : SendResolve(p)
  \/ \E p \in Writers : SendDeliver(p)
  \/ \E p \in Writers : SendFinish(p)
  \/ \E p \in Writers : AllIdle /\ PreviewStart(p)
  \/ \E p \in Writers : PreviewResolve(p)
  \/ \E p \in Writers, sel \in SUBSET PreviewLeadIds :
       AllIdle /\ nreq = 0 /\ PreviewsStart(p, sel)
  \/ \E p \in Writers : PreviewsDeliver(p)
  \/ \E p \in Writers : PreviewsDelay(p)
  \/ \E p \in Writers : PreviewsFinish(p)
  \/ \E p \in Writers : Return(p)

SpecLedger == InitAdd /\ [][NextLedger]_vars

\* ----- preview and send of a campaign with templates, for the sender names
\* and templates an operator can store
SenderNames == {"Sam", "", "$$", "$&"}
InterpolationSubjects ==
  {<<"Hello", "{{business_name}}">>,
   <<"{{sender_name}}", "for", "{{business_name}}", "{{business_name}}">>}
InterpolationBodies ==
  {<<"We help", "{{industry}}", "{{unknown}}">>,
   <<"{{location}}", "{{first_name}}", "Regards", "{{sender_name}}">>}

InitInterpolation ==
  /\ leads = InitialLeads
  /\ \E st \in InterpolationSubjects, bt \in InterpolationBodies :
       campaign = [status |-> "draft", subject_template |-> st, body_template |-> bt,
                   send_mode |-> "bulk", drip_delay_minutes |-> 10, total_sent |-> 0]
  /\ \E sn \in SenderNames :
       settings = [zoho_api_key |-> FALSE, smtp |-> TRUE, sender_name |-> sn]
  /\ campaign_leads = [l \in LeadIds |-> [status |-> "absent", sent_at |-> FALSE]]
  /\ messages = <<>>
  /\ run = [p \in Procs |-> IdleRun]
  /\ nreq = 0

NextInterpolation ==
  \/ \E ids \in SUBSET LeadIds : AllIdle /\ ids # {} /\ addLeadsToCampaign(ids)
  \/ \E p \in Writers : AllIdle /\ PreviewStart(p)
  \/ \E p \in Writers : PreviewResolve(p)
  \/ \E p \in Writers : AllIdle /\ nreq = 0 /\ SendStart(p)
  \/ \E p \in Writers : SendResolve(p)
  \/ \E p \in Writers : SendDeliver(p)
  \/ \E p \in Writers : SendFinish(p)
  \/ \E p \in Writers : Return(p)

SpecInterpolation == InitInterpolation /\ [][NextInterpolation]_vars

\* ----- the operator changes the membership of the campaign while a send
\* run is at one of its awaits (content generation, delivery, pacing delay)
InitMembership ==
  /\ Init
  /\ ~UseTemplates(campaign)
  /\ settings.zoho_api_key

NextMembership ==
  \/ \E ids \in SUBSET LeadIds : ids # {} /\ addLeadsToCampaign(ids)
  \/ \E l \in LeadIds : campaign_leads[l].status # "absent" /\ removeLeadFromCampaign(l)
  \/ \E p \in Writers : nreq = 0 /\ SendStart(p)
  \/ \E p \in Writers : SendResolve(p)
  \/ \E p \in Writers : SendDeliver(p)
  \/ \E p \in Writers : SendDelay(p)
  \/ \E p \in Writers : SendFinish(p)
  \/ \E p \in Writers : Return(p)

SpecMembership == InitMembership /\ [][NextMembership]_vars

\* ----- send and preview over leads that are rescored between the requests
NextOrder ==
  \/ \E ids \in SUBSET LeadIds : AllIdle /\ ids # {} /\ addLeadsToCampaign(ids)
  \/ \E l \in LeadIds, ok \in BOOLEAN, data \in EnrichmentData : Enrich(l, ok, data)
  \/ \E p \in Writers : AllIdle /\ nreq < MaxRequests /\ SendStart(p)
  \/ \E p \in Writers : SendResolve(p)
  \/ \E p \in Writers : SendDeliver(p)
  \/ \E p \in Writers : SendFinish(p)
  \/ \E p \in Writers : AllIdle /\ PreviewStart(p)
  \/ \E p \in Writers : PreviewResolve(p)
  \/ \E p \in Writers : Return(p)

SpecOrder == InitAdd /\ [][NextOrder]_vars

\* ----- sendCampaign alone, on every installation
NextSend ==
  \/ \E ids \in SUBSET LeadIds : AllIdle /\ ids # {} /\ addLeadsToCampaign(ids)
  \/ \E p \in Writers : AllIdle /\ nreq < MaxRequests /\ SendStart(p)
  \/ \E p \in Writers : SendResolve(p)
  \/ \E p \in Writers : SendDeliver(p)
  \/ \E p \in Writers : SendDelay(p)
  \/ \E p \in Writers : SendFinish(p)
  \/ \E p \in Writers : Return(p)

SpecSend == Init /\ [][NextSend]_vars

\* ----- one bulk request over the leads of an installation that sends by SMTP
InitBulk ==
  /\ Init
  /\ UseTemplates(campaign)
  /\ settings.smtp /\ ~settings.zoho_api_key

NextBulk ==
  \/ \E p \in Writers, ids \in BulkIdLists : AllIdle /\ BulkEnrichStart(p, ids)
  \/ \E p \in Writers : BulkEnrichItem(p)
  \/ \E p \in Writers, ids \in BulkIdLists : AllIdle /\ nreq < MaxRequests /\ BulkEmailStart(p, ids)
  \/ \E p \in Writers : BulkEmailItem(p)
  \/ \E p \in Writers : BulkFinish(p)

SpecBulk == InitBulk /\ [][NextBulk]_vars

\* ----- observations used by the properties

\* a sendCampaign / sendCampaignPreviews handler that has sent its result
Finished(p, kind) == run[p].kind = kind /\ run[p].pc = "done" /\ run[p].response = "ok"

\* lead ids of the rows the run loaded, in processing order
LoadedIds(r) == [k \in 1..Len(r.pendingLeads) |-> r.pendingLeads[k].lead_id]

\* positions of the messages recorded for lead l since the handler started
RecordedFor(r, l) == {k \in (r.start.messages + 1)..Len(messages) : messages[k].lead_id = l}

\* the recipients of the run's error list
ErrorNames(r) == {r.results.errors[k][1] : k \in 1..Len(r.results.errors)}

\* ----- C1
\* C1: when sendCampaign returns, every row that was pending when the run
\* started has been attempted exactly once, in order, and is sent or failed.
C1_NoEarlyAbort ==
  \A p \in Procs :
    Finished(p, "send") =>
      /\ run[p].attempts = LoadedIds(run[p])
      /\ \A l \in LeadIds :
           run[p].start.rows[l] = "pending" =>
             /\ \E k \in 1..Len(run[p].attempts) : run[p].attempts[k] = l
             /\ campaign_leads[l].status \in {"sent", "failed"}

\* a run of two recipients whose first recipient failed and whose second was sent
C1_Witness ==
  \E p \in Procs :
    /\ Finished(p, "send")
    /\ Len(run[p].pendingLeads) >= 2
    /\ campaign_leads[run[p].pendingLeads[1].lead_id].status = "failed"
    /\ campaign_leads[run[p].pendingLeads[2].lead_id].status = "sent"

\* ----- C2
\* C2: a recipient whose delivery failed (the email API answered non-OK or
\* threw, or SMTP threw) has its row failed, not sent, and is counted in
\* failed and listed in errors.
C2_DeliveryFailureMarksFailed ==
  \A p \in Procs :
    run[p].kind \in {"send", "previews"} =>
      \A k \in 1..Len(run[p].deliveries) :
        LET d == run[p].deliveries[k] IN
        (d.outcome # "ok" /\ run[p].start.rows[d.lead_id] = "pending") =>
          /\ campaign_leads[d.lead_id].status = "failed"
          /\ run[p].results.failed >= 1
          /\ BusinessName(d.lead_id) \in ErrorNames(run[p])

\* ----- C3
\* the order new < enriched < emailed < replied < interested < booked
StatusOrder == <<"new", "enriched", "emailed", "replied", "interested", "booked">>
Rank(st) == CHOOSE k \in 1..Len(StatusOrder) : StatusOrder[k] = st
Ordered(st) == \E k \in 1..Len(StatusOrder) : StatusOrder[k] = st
Regresses(old, new) == Ordered(old) /\ Ordered(new) /\ Rank(new) < Rank(old)

\* C3: no step other than the operator's manual status update moves a lead's
\* status to a value earlier in the order than the one it had.
C3_NoAutomaticRegression ==
  [][(\E l \in LeadIds, st \in {validStatuses[k] : k \in 1..Len(validStatuses)} :
        UpdateLeadStatus(l, st))
     \/ \A l \in LeadIds : ~Regresses(leads[l].status, leads'[l].status)]_vars

\* ----- C4
\* C4: when a send run (sendCampaign with a pending row, or
\* sendCampaignPreviews) has returned, the campaign is completed if no row is
\* pending and active if some row is pending.
C4_StatusAfterRun ==
  \A p \in Procs :
    (Finished(p, "send") \/ Finished(p, "previews")) =>
      campaign.status = IF CountRows(campaign_leads, "pending") = 0 THEN "completed" ELSE "active"

\* a preview send that sent something and left a row pending: the campaign is active
C4_Witness ==
  \E p \in Procs :
    /\ Finished(p, "previews")
    /\ run[p].results.sent >= 1
    /\ CountRows(campaign_leads, "pending") >= 1
    /\ campaign.status = "active"

\* ----- C5
\* recipients of the run, by position, whose row the run marked sent
SentPositions(r) ==
  {k \in 1..Len(r.pendingLeads) : campaign_leads[r.pendingLeads[k].lead_id].status = "sent"}
DelayPositions(r) == {r.delays[k].after : k \in 1..Len(r.delays)}

\* C5 as stated: a drip run over N >= 1 pending leads issues exactly N-1 delays.
C5_ExactlyNMinusOneDelays ==
  \A p \in Procs :
    (Finished(p, "send") /\ run[p].campaign.send_mode = "drip") =>
      Len(run[p].delays) = Len(run[p].pendingLeads) - 1

\* C5 amended: a drip run issues one delay after every recipient that was
\* sent and is not the last of the run, and no other delay (none after a
\* failed recipient, none after the last recipient).
C5_DelayAfterEachSentButLast ==
  \A p \in Procs :
    (Finished(p, "send") /\ run[p].campaign.send_mode = "drip") =>
      /\ DelayPositions(run[p]) = SentPositions(run[p]) \ {Len(run[p].pendingLeads)}
      /\ Len(run[p].delays) = Cardinality(DelayPositions(run[p]))
      /\ Len(run[p].delays) <= Len(run[p].pendingLeads) - 1

\* a drip run of two recipients, both sent, with its single delay after the first
C5_Witness ==
  \E p \in Procs :
    /\ Finished(p, "send") /\ run[p].campaign.send_mode = "drip"
    /\ Len(run[p].pendingLeads) = 2
    /\ run[p].results.sent = 2
    /\ Len(run[p].delays) = 1 /\ run[p].delays[1].after = 1

\* ----- C6
\* C6 as stated: every drip delay of sendCampaign lasts
\* min(drip_delay_minutes * 60000, 300000) ms; bulk mode issues no delay.
C6_DelayIsConfiguredMinutesCapped ==
  \A p \in Procs :
    run[p].kind = "send" =>
      /\ run[p].campaign.send_mode = "bulk" => run[p].delays = <<>>
      /\ \A k \in 1..Len(run[p].delays) :
           run[p].delays[k].ms = Min(run[p].campaign.drip_delay_minutes * 60000, 300000)

\* C6 amended: every drip delay of sendCampaign lasts min(m * 60000, 300000)
\* ms, where m is drip_delay_minutes, or 5 when drip_delay_minutes is 0 or
\* unset; it never exceeds 300000 ms; bulk mode issues no delay.
C6_DelayIsEffectiveMinutesCapped ==
  \A p \in Procs :
    run[p].kind = "send" =>
      /\ run[p].campaign.send_mode = "bulk" => run[p].delays = <<>>
      /\ \A k \in 1..Len(run[p].delays) :
           LET d == run[p].campaign.drip_delay_minutes
               m == IF d = 0 THEN 5 ELSE d
           IN /\ run[p].delays[k].ms = (IF m * 60000 < 300000 THEN m * 60000 ELSE 300000)
              /\ run[p].delays[k].ms <= 300000

\* a drip run configured with 10 minutes that waited the capped 300000 ms
C6_Witness ==
  \E p \in Procs :
    /\ run[p].kind = "send" /\ run[p].campaign.drip_delay_minutes = 10
    /\ Len(run[p].delays) >= 1 /\ run[p].delays[1].ms = 300000

\* ----- C7
\* C7: in drip mode every delay of sendCampaignPreviews equals the delay
\* sendCampaign uses for the same campaign (configured minutes, capped at 300000 ms).
C7_PreviewsDelayEqualsSendDelay ==
  \A p \in Procs :
    (run[p].kind = "previews" /\ run[p].campaign.send_mode = "drip") =>
      \A k \in 1..Len(run[p].delays) : run[p].delays[k].ms = SendDelayMs(run[p].campaign)

\* ----- C8
DeliveredTo(r, l) == \E k \in 1..Len(r.deliveries) : r.deliveries[k].lead_id = l
Untouched(r, l) ==
  l \in LeadIds =>
    /\ campaign_leads[l].status = r.start.rows[l]
    /\ leads[l].status = r.start.statuses[l]

\* C8 as stated: every selected preview yields one Message and its row
\* becomes sent; an unselected preview yields nothing and changes nothing.
C8_ExactlySelectedSent ==
  \A p \in Procs :
    Finished(p, "previews") =>
      \A k \in 1..Len(run[p].previews) :
        LET pv == run[p].previews[k] IN
        IF pv.selected
        THEN /\ Cardinality(RecordedFor(run[p], pv.lead_id)) = 1
             /\ (pv.lead_id \in LeadIds /\ run[p].start.rows[pv.lead_id] # "absent")
                  => campaign_leads[pv.lead_id].status = "sent"
        ELSE /\ RecordedFor(run[p], pv.lead_id) = {}
             /\ ~DeliveredTo(run[p], pv.lead_id)
             /\ Untouched(run[p], pv.lead_id)

\* C8 amended: every selected preview whose lead exists yields one Message,
\* its row (if the lead has one) becomes sent and the lead emailed; a selected
\* preview whose lead does not exist is skipped without a Message; for a lead
\* whose preview is not selected no Message is recorded, no delivery is
\* attempted and its row and lead status are unchanged.
C8_SelectedExistingSent ==
  \A p \in Procs :
    Finished(p, "previews") =>
      \A k \in 1..Len(run[p].previews) :
        LET pv == run[p].previews[k] IN
        IF pv.selected /\ pv.lead_id \in LeadIds
        THEN /\ Cardinality(RecordedFor(run[p], pv.lead_id)) = 1
             /\ run[p].start.rows[pv.lead_id] # "absent"
                  => campaign_leads[pv.lead_id].status = "sent"
             /\ leads[pv.lead_id].status = "emailed"
        ELSE /\ RecordedFor(run[p], pv.lead_id) = {}
             /\ ~DeliveredTo(run[p], pv.lead_id)
             /\ Untouched(run[p], pv.lead_id)

\* a preview send with one selected and one unselected pending lead: the
\* first is sent, the second still pending
C8_Witness ==
  \E p \in Procs :
    /\ Finished(p, "previews")
    /\ \E a, b \in 1..Len(run[p].previews) :
         LET pa == run[p].previews[a]
             pb == run[p].previews[b]
         IN /\ pa.selected /\ pa.lead_id \in LeadIds
            /\ run[p].start.rows[pa.lead_id] = "pending"
            /\ campaign_leads[pa.lead_id].status = "sent"
            /\ ~pb.selected /\ pb.lead_id \in LeadIds
            /\ run[p].start.rows[pb.lead_id] = "pending"
            /\ campaign_leads[pb.lead_id].status = "pending"

\* ----- C9
SubmittedAs(r, l, subject, body) ==
  \E k \in 1..Len(r.previews) :
    /\ r.previews[k].selected /\ r.previews[k].lead_id = l
    /\ r.previews[k].subject = subject /\ r.previews[k].body = body

\* C9: sendCampaignPreviews hands to the provider and stores in the Message
\* exactly the submitted subject and body of a selected preview, and runs
\* neither the interpolator nor the generator.
C9_PreviewTextVerbatim ==
  \A p \in Procs :
    run[p].kind = "previews" =>
      /\ \A k \in 1..Len(run[p].deliveries) :
           LET d == run[p].deliveries[k] IN SubmittedAs(run[p], d.lead_id, d.subject, d.body)
      /\ \A k \in (run[p].start.messages + 1)..Len(messages) :
           \E j \in 1..Len(run[p].previews) :
             /\ run[p].previews[j].selected
             /\ run[p].previews[j].lead_id = messages[k].lead_id
             /\ messages[k].content =
                  fullContent(run[p].previews[j].subject, run[p].previews[j].body)
      /\ run[p].generated = <<>>
      /\ run[p].interpolated = <<>>

\* an edited preview that still carries a placeholder token was delivered and recorded
C9_Witness ==
  \E p \in Procs :
    /\ Finished(p, "previews")
    /\ \E k \in 1..Len(run[p].deliveries) :
         /\ run[p].deliveries[k].outcome = "ok"
         /\ run[p].deliveries[k].subject = <<"Edited for", "{{business_name}}">>
    /\ \E k \in (run[p].start.messages + 1)..Len(messages) :
         messages[k].content = fullContent(<<"Edited for", "{{business_name}}">>, PreviewBody(1))

\* ----- C10
\* C10: in sendCampaign and previewCampaign the generator is never invoked
\* when both templates are non-empty, and is invoked for every recipient
\* processed when both are blank.
C10_TemplateOrGeneration ==
  \A p \in Procs :
    run[p].kind \in {"send", "preview"} =>
      LET c == run[p].campaign IN
      /\ (Truthy(c.subject_template) /\ Truthy(c.body_template)) => run[p].generated = <<>>
      /\ (~Truthy(c.subject_template) /\ ~Truthy(c.body_template))
           => run[p].generated = run[p].attempts

\* a send over blank templates that invoked the generator for both recipients
C10_Witness ==
  \E p \in Procs :
    /\ Finished(p, "send")
    /\ ~Truthy(run[p].campaign.subject_template) /\ ~Truthy(run[p].campaign.body_template)
    /\ Len(run[p].attempts) >= 2
    /\ run[p].generated = run[p].attempts

\* ----- C11
\* the lead ids of a request's list
IdsOf(ids) == {ids[k] : k \in 1..Len(ids)}

\* C11: an add request leaves every row that existed before it exactly as it
\* was (status and sent_at), gives every other listed lead one pending row,
\* touches no unlisted lead, and answers with the number of listed leads that
\* had no row (0 when every listed pair was already present).
C11_AddIdempotent ==
  [][\A p \in Procs :
       (run[p].pc = "idle" /\ run'[p].kind = "add") =>
         LET ids == IdsOf(run'[p].leadIds) IN
         /\ \A l \in LeadIds :
              campaign_leads'[l] =
                IF campaign_leads[l].status = "absent" /\ l \in ids
                THEN [status |-> "pending", sent_at |-> FALSE]
                ELSE campaign_leads[l]
         /\ run'[p].added = Cardinality({l \in ids : campaign_leads[l].status = "absent"})]_vars

\* an add request that listed a lead whose row was already sent: the row is
\* still sent, with its timestamp, and the answer counts 0
C11_Witness ==
  \E p \in Procs :
    /\ run[p].kind = "add" /\ run[p].pc = "done"
    /\ Len(run[p].leadIds) >= 1 /\ run[p].added = 0
    /\ \E l \in IdsOf(run[p].leadIds) :
         /\ run[p].start.rows[l] = "sent"
         /\ campaign_leads[l] = [status |-> "sent", sent_at |-> TRUE]

\* ----- C12
\* C12: a row that was failed when a sendCampaign or sendCampaignPreviews run
\* started is still failed during and after the run, and the run records no
\* Message for its lead and attempts no delivery to it.
C12_FailedNeverRetried ==
  \A p \in Procs :
    run[p].kind \in {"send", "previews"} =>
      \A l \in LeadIds :
        run[p].start.rows[l] = "failed" =>
          /\ campaign_leads[l].status = "failed"
          /\ RecordedFor(run[p], l) = {}
          /\ ~DeliveredTo(run[p], l)

\* ----- C13
\* positions of the campaign messages of lead l
CampaignMessages(ms, l) ==
  {k \in 1..Len(ms) : ms[k].lead_id = l /\ ms[k].intent = "campaign"}

\* lead ids at the positions from..to of the rows a run loaded
IdsAt(r, from, to) == {r.pendingLeads[k].lead_id : k \in from..to}

\* C13: when a send run was cut short after it had written the row status of
\* k of its N recipients, the next send run loads exactly the other N-k
\* recipients and none of the k; and in no step does a lead whose row is
\* already sent get another campaign Message.
C13_Resumption ==
  /\ [](\A p \in Procs :
         (run[1].pc = "terminated" /\ p # 1 /\ run[p].kind = "send"
            /\ run[p].start.nreq = run[1].start.nreq + 1) =>
           LET k == run[1].finished
               N == Len(run[1].pendingLeads)
           IN /\ Len(run[p].pendingLeads) = N - k
              /\ IdsAt(run[p], 1, Len(run[p].pendingLeads)) = IdsAt(run[1], k + 1, N)
              /\ IdsAt(run[p], 1, Len(run[p].pendingLeads)) \cap IdsAt(run[1], 1, k) = {})
  /\ [][\A l \in LeadIds :
          campaign_leads[l].status = "sent" =>
            CampaignMessages(messages', l) = CampaignMessages(messages, l)]_vars

\* a run of two recipients cut short after the first was sent, and the later
\* run that sent the second one only
C13_Witness ==
  /\ run[1].pc = "terminated" /\ Len(run[1].pendingLeads) = 2 /\ run[1].finished = 1
  /\ campaign_leads[run[1].pendingLeads[1].lead_id].status = "sent"
  /\ Finished(2, "send")
  /\ Len(run[2].pendingLeads) = 1
  /\ run[2].pendingLeads[1].lead_id = run[1].pendingLeads[2].lead_id
  /\ run[2].results.sent = 1

\* ----- C14
\* C14: no send request is held back or narrowed by another one in flight: a
\* handler loads every row that is pending in the store when it starts, also
\* the rows another handler has loaded and not yet recorded, and it processes
\* every row it loaded (sent or failed) whatever the other handler did to it.
C14_NoMutualExclusion ==
  \A p \in Procs :
    run[p].kind = "send" =>
      /\ IdsAt(run[p], 1, Len(run[p].pendingLeads)) =
           {l \in LeadIds : run[p].start.rows[l] = "pending"}
      /\ Finished(p, "send") =>
            run[p].results.sent + run[p].results.failed = Len(run[p].pendingLeads)

\* the double send: both handlers loaded the same pending row, both delivered
\* to its lead and the lead has two campaign Messages
C14_Witness ==
  \E l \in LeadIds :
    /\ \A p \in Procs :
         /\ run[p].kind = "send"
         /\ run[p].start.rows[l] = "pending"
         /\ l \in IdsAt(run[p], 1, Len(run[p].pendingLeads))
         /\ DeliveredTo(run[p], l)
    /\ Cardinality(CampaignMessages(messages, l)) = 2

\* ----- C15
\* the answer of the step is the error code, and the step recorded no
\* Message, attempted no delivery and changed no Campaign, CampaignLead or Lead
RefusedWith(p, code) ==
  /\ run'[p].pc = "done" /\ run'[p].response = code
  /\ run'[p].deliveries = <<>>
  /\ messages' = messages
  /\ campaign' = campaign
  /\ campaign_leads' = campaign_leads
  /\ leads' = leads

\* C15: a send, preview or send-previews request for an id that has no
\* campaign is answered 404, and a send-previews request whose previews are
\* missing or not an array is answered 400 (whatever the id); such a request
\* records no Message, attempts no delivery and changes no status.
C15_FatalRequestChangesNothing ==
  [][\A p \in Procs :
       /\ (\/ SendRequest(p, "absent")
           \/ PreviewRequest(p, "absent")
           \/ \E sel \in SUBSET PreviewLeadIds : PreviewsRequest(p, "absent", "array", sel))
            => RefusedWith(p, "404")
       /\ (\E cid \in RequestIds, shape \in PreviewsShapes \ {"array"}, sel \in SUBSET PreviewLeadIds :
              PreviewsRequest(p, cid, shape, sel))
            => RefusedWith(p, "400")]_vars

\* a send-previews request for an absent campaign was answered 404 while a
\* row of the existing campaign is still pending and no Message exists
C15_Witness ==
  \E p \in Procs :
    /\ run[p].kind = "previews" /\ run[p].pc = "done" /\ run[p].response = "404"
    /\ CountRows(campaign_leads, "pending") >= 1
    /\ messages = <<>>
    /\ campaign.status = "draft"

\* ----- C16
\* names of the recipients a send run loaded whose row is failed, in the
\* order the run processed them
FailedNames(r) ==
  LET failedRows == SelectSeq(r.pendingLeads, LAMBDA cl : campaign_leads[cl.lead_id].status = "failed")
  IN [k \in 1..Len(failedRows) |-> failedRows[k].business_name]

\* the reasons a recipient can fail with
FailureReasons == {"AI failed to generate email", "error"}

Placeholders(name) ==
  {<<<<"Quick question for", name>>, <<"(AI generation failed - edit this manually)">>>>,
   <<<<"Follow up with", name>>, <<"(Error generating: error)">>>>}

\* a previewCampaign handler that has answered
Previewed(p) == run[p].kind = "preview" /\ run[p].pc = "done"

\* C17: the list previewCampaign returns has exactly one item per pending
\* row, in descending lead score, each item selected; an item holds the
\* interpolated templates when both templates have content, and otherwise the
\* generated text or, when generation failed, a placeholder naming the lead.
C17_PreviewPerPendingRow ==
  \A p \in Procs :
    Previewed(p) =>
      LET pv == run[p].previews IN
      /\ Len(pv) = Cardinality(PendingIds)
      /\ {pv[k].lead_id : k \in 1..Len(pv)} = PendingIds
      /\ \A a, b \in 1..Len(pv) : a < b => pv[a].lead_score >= pv[b].lead_score
      /\ \A k \in 1..Len(pv) :
           LET row == JoinRow(pv[k].lead_id) IN
           /\ pv[k].selected
           /\ pv[k].lead_score = leads[pv[k].lead_id].lead_score
           /\ IF UseTemplates(campaign)
              THEN /\ pv[k].subject = interpolateTemplate(campaign.subject_template, row, settings)
                   /\ pv[k].body = interpolateTemplate(campaign.body_template, row, settings)
              ELSE <<pv[k].subject, pv[k].body>> \in
                     {<<GeneratedSubject(row), GeneratedBody(row)>>} \cup Placeholders(row.business_name)

\* a preview of two pending rows, the enriched lead first: the first item is
\* a placeholder, the second holds the generated text
C17_Witness ==
  \E p \in Procs :
    /\ Previewed(p) /\ Len(run[p].previews) = 2
    /\ run[p].previews[1].lead_id = 1
    /\ <<run[p].previews[1].subject, run[p].previews[1].body>> \in Placeholders(BusinessName(1))
    /\ run[p].previews[2].subject = GeneratedSubject(JoinRow(2))

\* ----- C18
\* the rubric, term by term
RubricEmail(lead, data) == IF lead.email \/ data.contact_email THEN 25 ELSE 0
RubricPhone(lead, data) == IF lead.phone \/ data.contact_phone THEN 10 ELSE 0
RubricWebsite(lead) == IF lead.website THEN 10 ELSE 0
RubricRating(lead) == IF lead.rating >= 4 THEN 15 ELSE IF lead.rating >= 3 THEN 5 ELSE 0
RubricPainPoints(data) == IF 10 * data.pain_points > 25 THEN 25 ELSE 10 * data.pain_points
RubricServices(data) == IF 5 * data.services > 15 THEN 15 ELSE 5 * data.services

\* C18: the score an enrichment computes, stores and answers is the sum of
\* the six rubric terms for the lead as it was and the facts found, and it
\* lies in 0..100.
C18_ScoreIsRubric ==
  \A p \in Procs :
    (run[p].kind = "enrich" /\ run[p].response = "ok") =>
      LET lead == run[p].enrichment.lead
          data == run[p].enrichment.data
          score == run[p].enrichment.lead_score
      IN /\ score = RubricEmail(lead, data) + RubricPhone(lead, data)
                      + RubricWebsite(lead) + RubricRating(lead)
                      + RubricPainPoints(data) + RubricServices(data)
         /\ score \in 0..100
         /\ \E l \in LeadIds : leads[l].status = "enriched" /\ leads[l].lead_score = score

\* a lead with every fact present, enriched with the full score
C18_Witness ==
  \E p \in Procs, l \in LeadIds :
    /\ run[p].kind = "enrich" /\ run[p].response = "ok"
    /\ run[p].enrichment.data.pain_points >= 3 /\ run[p].enrichment.data.services >= 3
    /\ leads[l].status = "enriched"
    /\ leads[l].email /\ leads[l].phone /\ leads[l].website /\ leads[l].rating >= 4
    /\ leads[l].lead_score = 100 /\ run[p].enrichment.lead_score = 100

\* ----- C19
\* C19: a bulk enrich or bulk email run takes the submitted ids one by one in
\* their order, counts every id it has taken exactly once as success or
\* failed, whatever happened to the ids before it, and answers only after the
\* last id, with success + failed equal to the number of ids submitted.
C19_BatchIsolation ==
  \A p \in Procs :
    run[p].kind \in {"bulk-enrich", "bulk-email"} =>
      LET r == run[p] IN
      /\ r.attempts = SubSeq(r.leadIds, 1, Len(r.attempts))
      /\ r.tally.success + r.tally.failed = Len(r.attempts)
      /\ Len(r.tally.errors) <= r.tally.failed
      /\ r.pc = "done" =>
           /\ r.attempts = r.leadIds
           /\ r.tally.success + r.tally.failed = Len(r.leadIds)

\* a bulk email over an unknown id followed by a lead: the first failed, the
\* second succeeded and has its pitch recorded
C19_Witness ==
  \E p \in Procs :
    /\ run[p].kind = "bulk-email" /\ run[p].pc = "done"
    /\ Len(run[p].leadIds) = 2
    /\ run[p].leadIds[1] = GhostLead /\ run[p].leadIds[2] \in LeadIds
    /\ run[p].tally.failed = 1 /\ run[p].tally.success = 1
    /\ leads[run[p].leadIds[2]].status = "emailed"
    /\ \E k \in 1..Len(messages) :
         messages[k].lead_id = run[p].leadIds[2] /\ messages[k].intent = "pitch"

\* ----- C20
\* C20: in a sendCampaign run every recipient whose content was resolved and
\* whose delivery branch is over has exactly one message of this run, in the
\* order of resolution, outbound, of intent campaign, holding the resolved
\* subject and body, whatever the delivery branch did; and a delivery is
\* attempted at most once per recipient and only for one with an address.
C20_OneMessagePerResolved ==
  \A p \in Procs :
    run[p].kind = "send" =>
      LET r == run[p]
          n == Len(r.resolved) - (IF r.pc = "deliver" THEN 1 ELSE 0)
      IN
      /\ Len(messages) = r.start.messages + n
      /\ \A k \in 1..n :
           messages[r.start.messages + k] =
             [lead_id |-> r.resolved[k].lead_id, direction |-> "outbound",
              content |-> fullContent(r.resolved[k].subject, r.resolved[k].body),
              intent |-> "campaign"]
      /\ \A j, k \in 1..n : r.resolved[j].lead_id = r.resolved[k].lead_id => j = k
      /\ \A k \in 1..Len(r.deliveries) :
           /\ \E j \in 1..Len(r.pendingLeads) :
                r.pendingLeads[j].lead_id = r.deliveries[k].lead_id /\ r.pendingLeads[j].email
           /\ \A j \in 1..Len(r.deliveries) :
                r.deliveries[j].lead_id = r.deliveries[k].lead_id => j = k

\* a finished run over two recipients: the delivery to the first failed, the
\* second has no address and was never delivered to, and both have their
\* message
C20_Witness ==
  \E p \in Procs :
    /\ run[p].kind = "send" /\ run[p].pc = "done"
    /\ Len(run[p].resolved) = 2
    /\ Len(run[p].deliveries) = 1
    /\ run[p].deliveries[1].outcome # "ok"
    /\ \E k \in 1..2 :
         /\ ~leads[run[p].resolved[k].lead_id].email
         /\ run[p].deliveries[1].lead_id # run[p].resolved[k].lead_id
    /\ Len(messages) = run[p].start.messages + 2

\* ----- C21
\* C21: a send or preview run loads exactly the rows that were pending when it
\* started, in an order that is descending in the lead score they were loaded
\* with, and handles them in that order.
C21_PendingByDescendingScore ==
  \A p \in Procs :
    (run[p].kind \in {"send", "preview"} /\ run[p].response # "nopending") =>
      LET r == run[p] IN
      /\ {LoadedIds(r)[k] : k \in 1..Len(r.pendingLeads)} =
           {l \in LeadIds : r.start.rows[l] = "pending"}
      /\ \A a, b \in 1..Len(r.pendingLeads) :
           a < b => /\ r.pendingLeads[a].lead_score >= r.pendingLeads[b].lead_score
                    /\ r.pendingLeads[a].lead_id # r.pendingLeads[b].lead_id
      /\ r.attempts = SubSeq(LoadedIds(r), 1, Len(r.attempts))

\* a preview after a send: the lead added since is the only row loaded, the
\* sent or failed row of the other lead is left out
C21_WitnessStatus ==
  \E p \in Procs :
    /\ run[p].kind = "preview" /\ run[p].pc = "done" /\ Len(run[p].pendingLeads) = 1
    /\ \E l \in LeadIds : run[p].start.rows[l] \in {"sent", "failed"}

\* a send over both leads after the first lead was rescored above the second:
\* the first lead is handled first although it was added with the lower score
C21_Witness ==
  \E p \in Procs :
    /\ run[p].kind = "send" /\ run[p].pc = "done"
    /\ run[p].attempts = <<1, 2>>
    /\ run[p].pendingLeads[1].lead_score > run[p].pendingLeads[2].lead_score
    /\ InitialLeads[1].lead_score < InitialLeads[2].lead_score

\* ----- C22
\* C22: a sendCampaign request that finds no pending row answers in the same
\* step with sent = 0 and nothing delivered, and leaves the messages, the
\* campaign (status and counters), every campaign row and every lead as
\* they were.
C22_NoPendingIsNoOp ==
  [][\A p \in Procs :
       (SendStart(p) /\ PendingIds = {}) =>
         /\ UNCHANGED <<messages, campaign, campaign_leads, leads, settings>>
         /\ run'[p].pc = "done" /\ run'[p].response = "nopending"
         /\ run'[p].results = NoResults
         /\ run'[p].deliveries = <<>> /\ run'[p].attempts = <<>>]_vars

\* a second send on a campaign whose only row was sent by the first: the
\* answer is the no-op one and the campaign is still completed with its count
C22_Witness ==
  \E p \in Procs :
    /\ run[p].kind = "send" /\ run[p].response = "nopending"
    /\ campaign.status = "completed" /\ campaign.total_sent > 0
    /\ Len(messages) > 0

\* ----- C23
\* the handler is inside its loop over the recipients
InSendLoop(p) == run[p].kind = "send" /\ run[p].pc \in {"resolve", "deliver", "delay"}

\* C23 as stated: whenever a send run is inside its loop the campaign is active.
C23_ActiveDuringLoop == \A p \in Procs : InSendLoop(p) => campaign.status = "active"

\* C23: a send request that finds a pending row leaves the campaign active
\* before its first recipient, whatever the status was; and while a run is
\* inside its loop the status stops being active only by a campaign update or
\* by the rollup of another run, never by a step of the loop.
C23_ActiveUntilOtherWriter ==
  [][
    /\ \A p \in Procs :
         (SendStart(p) /\ PendingIds # {}) =>
           /\ campaign'.status = "active"
           /\ run'[p].pc = "resolve" /\ run'[p].attempts = <<>>
    /\ \A p \in Procs :
         (InSendLoop(p) /\ campaign.status = "active" /\ campaign'.status # "active") =>
           \/ \E st \in CampaignStatuses : UpdateCampaignStatus(st)
           \/ \E q \in Procs \ {p} : SendFinish(q)
  ]_vars

\* a run inside its loop that loaded the campaign paused and left it active
C23_Witness ==
  \E p \in Procs :
    /\ InSendLoop(p)
    /\ run[p].campaign.status = "paused"
    /\ campaign.status = "active"

\* ----- C24
\* the number of recipients a send run is through with
HandledCount(r) == IF r.pc = "deliver" THEN Len(r.attempts) - 1 ELSE Len(r.attempts)

\* C24: at every moment of a send run, each recipient the run is through with
\* has its row either sent, with sent_at set and the lead emailed, or failed,
\* with the lead's status as it was when the run started; and the step that
\* marks a row sent is the step that sets the lead emailed, while the step
\* that marks a row failed writes no lead.
C24_Lockstep ==
  /\ [](\A p \in Procs :
          run[p].kind = "send" =>
            \A k \in 1..HandledCount(run[p]) :
              LET l == run[p].attempts[k] IN
              \/ /\ campaign_leads[l] = [status |-> "sent", sent_at |-> TRUE]
                 /\ leads[l].status = "emailed"
              \/ /\ campaign_leads[l].status = "failed"
                 /\ leads[l].status = run[p].start.statuses[l])
  /\ [][\A l \in LeadIds :
          /\ (campaign_leads[l].status # "sent" /\ campaign_leads'[l].status = "sent") =>
               (campaign_leads'[l].sent_at /\ leads'[l].status = "emailed")
          /\ (campaign_leads[l].status # "failed" /\ campaign_leads'[l].status = "failed") =>
               leads' = leads]_vars

\* a finished run over two leads the operator had marked replied: the first
\* failed and is still replied, the second was sent and is emailed
C24_Witness ==
  \E p \in Procs :
    /\ run[p].kind = "send" /\ run[p].pc = "done" /\ Len(run[p].attempts) = 2
    /\ \E a, b \in LeadIds :
         /\ run[p].start.statuses[a] = "replied" /\ run[p].start.statuses[b] = "replied"
         /\ campaign_leads[a].status = "failed" /\ leads[a].status = "replied"
         /\ campaign_leads[b] = [status |-> "sent", sent_at |-> TRUE]
         /\ leads[b].status = "emailed"

\* ----- C25
\* positions in the run's processing order of the recipients whose content
\* resolution has begun and whose row is not written yet
InFlight(r) == {k \in 1..Len(r.attempts) : campaign_leads[r.attempts[k]].status = "pending"}

\* the recipients of the run whose row is written as sent, in processing order
SentSoFar(r) ==
  SelectSeq(r.attempts, LAMBDA l : campaign_leads[l].status = "sent")

\* C25: at every moment of a send run at most one recipient is in flight, and
\* it is the one begun last: every recipient begun before it has its row
\* written as sent or failed, and the messages recorded since the run started
\* are those of the recipients written as sent, in the order they were begun.
C25_OneRecipientInFlight ==
  \A p \in Procs :
    run[p].kind = "send" =>
      LET r == run[p] IN
      /\ InFlight(r) \subseteq {Len(r.attempts)}
      /\ \A k \in 1..Len(r.attempts) :
           k \notin InFlight(r) => campaign_leads[r.attempts[k]].status \in {"sent", "failed"}
      /\ Len(messages) = r.start.messages + Len(SentSoFar(r))
      /\ \A k \in 1..Len(SentSoFar(r)) :
           messages[r.start.messages + k].lead_id = SentSoFar(r)[k]
      /\ \A k \in 1..Len(r.deliveries) :
           \E j \in 1..Len(r.attempts) : r.attempts[j] = r.deliveries[k].lead_id

\* the second recipient is in flight while the first has its row sent and its
\* message recorded
C25_Witness ==
  \E p \in Procs :
    /\ run[p].kind = "send" /\ Len(run[p].attempts) = 2
    /\ InFlight(run[p]) = {2}
    /\ campaign_leads[run[p].attempts[1]].status = "sent"
    /\ Len(messages) = run[p].start.messages + 1
    /\ messages[Len(messages)].lead_id = run[p].attempts[1]

\* ----- C26
\* the providers called for lead l in a run, in order
ProvidersCalled(r, l) ==
  LET ds == SelectSeq(r.deliveries, LAMBDA d : d.lead_id = l) IN
  [k \in 1..Len(ds) |-> ds[k].provider]

\* the resolved recipients of a run whose delivery branch is over
DeliveredCount(r) == Len(r.resolved) - (IF r.pc = "deliver" THEN 1 ELSE 0)

\* the row of lead l among the rows the run loaded
LoadedRow(r, l) ==
  r.pendingLeads[CHOOSE j \in 1..Len(r.pendingLeads) : r.pendingLeads[j].lead_id = l]

\* C26 as stated: the provider depends on the configuration alone.
C26_ProviderByConfiguration ==
  \A p \in Procs :
    run[p].kind = "send" =>
      \A k \in 1..DeliveredCount(run[p]) :
        ProvidersCalled(run[p], run[p].resolved[k].lead_id) =
          IF run[p].settings.zoho_api_key THEN <<"zoho">>
          ELSE IF run[p].settings.smtp THEN <<"smtp">>
          ELSE <<>>

\* C26: for a recipient with an address, sendCampaign calls the HTTP API once
\* if the API key is configured, otherwise the SMTP relay once if it is
\* configured, otherwise nothing; for a recipient without an address it
\* calls nothing whatever is configured; in every case the message is
\* recorded.
C26_ProviderByConfigurationAndAddress ==
  \A p \in Procs :
    run[p].kind = "send" =>
      LET r == run[p] IN
      \A k \in 1..DeliveredCount(r) :
        LET l == r.resolved[k].lead_id IN
        /\ ProvidersCalled(r, l) =
             IF LoadedRow(r, l).email /\ r.settings.zoho_api_key THEN <<"zoho">>
             ELSE IF LoadedRow(r, l).email /\ r.settings.smtp THEN <<"smtp">>
             ELSE <<>>
        /\ \E m \in (r.start.messages + 1)..Len(messages) :
             messages[m].lead_id = l /\ messages[m].intent = "campaign"

\* a finished run with only the SMTP relay configured: the lead with an
\* address went through SMTP, the lead without one through nothing, and both
\* have their message
C26_Witness ==
  \E p \in Procs :
    /\ run[p].kind = "send" /\ run[p].pc = "done"
    /\ ~run[p].settings.zoho_api_key /\ run[p].settings.smtp
    /\ Len(run[p].resolved) = 2
    /\ \E a, b \in LeadIds :
         /\ ProvidersCalled(run[p], a) = <<"smtp">>
         /\ ProvidersCalled(run[p], b) = <<>>
         /\ \E m, n \in 1..Len(messages) : messages[m].lead_id = a /\ messages[n].lead_id = b

\* a finished run with nothing configured: nothing was called and the
\* message of the lead with an address is recorded
C26_WitnessSkipped ==
  \E p \in Procs :
    /\ run[p].kind = "send" /\ run[p].pc = "done"
    /\ ~run[p].settings.zoho_api_key /\ ~run[p].settings.smtp
    /\ run[p].deliveries = <<>>
    /\ \E m \in 1..Len(messages) : leads[messages[m].lead_id].email

\* ----- C27
\* a send-previews run of a bulk campaign whose loop is over
BulkPreviewsOver(p) ==
  /\ run[p].kind = "previews" /\ run[p].pc \in {"rollup", "done"}
  /\ run[p].campaign.send_mode = "bulk"

\* C27 as stated: a bulk send-previews run that sent M previews waited M-1
\* times.
C27_ExactlyMMinusOneDelays ==
  \A p \in Procs :
    BulkPreviewsOver(p) =>
      Len(run[p].delays) = (IF run[p].results.sent = 0 THEN 0 ELSE run[p].results.sent - 1)

\* C27: a bulk send-previews run waits 2000 ms after every selected preview
\* that it sent and that is not the last of the selected list, and after no
\* other; it waits exactly M-1 times when the leads of all M selected
\* previews exist; and a bulk sendCampaign run never waits.
C27_DelayAfterEachSentButLastSelected ==
  \A p \in Procs :
    LET r == run[p] IN
    /\ (r.kind = "previews" /\ r.campaign.send_mode = "bulk") =>
         \A k \in 1..Len(r.delays) : r.delays[k].ms = 2000
    /\ BulkPreviewsOver(p) =>
         /\ {r.delays[k].after : k \in 1..Len(r.delays)} =
              {k \in 1..(Len(r.pendingLeads) - 1) : r.pendingLeads[k].lead_id \in LeadIds}
         /\ \A j, k \in 1..Len(r.delays) : r.delays[j].after = r.delays[k].after => j = k
         /\ ((\A k \in 1..Len(r.pendingLeads) : r.pendingLeads[k].lead_id \in LeadIds)
               /\ Len(r.pendingLeads) > 0) =>
              /\ r.results.sent = Len(r.pendingLeads)
              /\ Len(r.delays) = Len(r.pendingLeads) - 1
    /\ (r.kind = "send" /\ r.campaign.send_mode = "bulk") =>
         (r.delays = <<>> /\ r.pc # "delay")

\* a finished bulk send-previews run that sent two previews and waited once,
\* for 2000 ms
C27_Witness ==
  \E p \in Procs :
    /\ BulkPreviewsOver(p) /\ run[p].pc = "done"
    /\ run[p].results.sent = 2 /\ Len(run[p].pendingLeads) = 2
    /\ Len(run[p].delays) = 1 /\ run[p].delays[1].ms = 2000

\* a finished bulk sendCampaign run over two recipients that never waited
C27_WitnessSend ==
  \E p \in Procs :
    /\ run[p].kind = "send" /\ run[p].pc = "done" /\ run[p].campaign.send_mode = "bulk"
    /\ run[p].results.sent = 2 /\ run[p].delays = <<>>

\* ----- C28
\* the rows of the campaign that are sent
SentRows == {l \in LeadIds : campaign_leads[l].status = "sent"}

\* C28: when a sendCampaign run that processed a row, or a send-previews run,
\* has answered, the campaign's total_sent is the number of its rows that
\* are sent.
C28_TotalSentCountsSentRows ==
  \A p \in Procs :
    (run[p].kind \in {"send", "previews"} /\ run[p].pc = "done" /\ run[p].response = "ok") =>
      campaign.total_sent = Cardinality(SentRows)

\* a finished sendCampaign run over two rows, one sent and one failed:
\* total_sent is 1
C28_Witness ==
  \E p \in Procs :
    /\ run[p].kind = "send" /\ run[p].pc = "done" /\ run[p].response = "ok"
    /\ Len(run[p].attempts) = 2
    /\ \E l \in LeadIds : campaign_leads[l].status = "failed"
    /\ Cardinality(SentRows) = 1 /\ campaign.total_sent = 1

\* a finished send-previews run after an earlier run: total_sent went from 1
\* to 2
C28_WitnessPreviews ==
  \E p \in Procs :
    /\ run[p].kind = "previews" /\ run[p].pc = "done"
    /\ run[p].campaign.total_sent = 1 /\ campaign.total_sent = 2

\* ----- C29
\* ms is an initial part of ns
IsPrefix(ms, ns) == Len(ms) <= Len(ns) /\ SubSeq(ns, 1, Len(ms)) = ms

\* C29: every step leaves the messages recorded so far as they are, in their
\* order, and at most appends to them, except the deletion of a lead, which
\* removes the messages of that lead, all of them, and no other.
C29_MessagesAppendOnly ==
  [][\/ IsPrefix(messages, messages')
     \/ \E l \in LeadIds :
          /\ DeleteLead(l)
          /\ messages' = SelectSeq(messages, LAMBDA m : m.lead_id # l)
          /\ ~leads'[l].exists]_vars

\* a lead that was emailed has been deleted: none of its messages is left and
\* a message of another lead still is
C29_Witness ==
  \E l \in LeadIds :
    /\ ~leads[l].exists /\ leads[l].status = "emailed"
    /\ \A m \in 1..Len(messages) : messages[m].lead_id # l
    /\ \E m \in 1..Len(messages) : messages[m].lead_id \in LeadIds \ {l}

\* ----- C30
\* C30: from its first step to its answer a preview run leaves the messages,
\* the campaign row, every campaign row of a lead and every lead status as
\* they were when it started, delivers nothing, and every row it previews is
\* still pending.
C30_PreviewReadOnly ==
  \A p \in Procs :
    (run[p].kind = "preview" /\ run[p].response # "nopending") =>
      LET r == run[p] IN
      /\ Len(messages) = r.start.messages
      /\ campaign = r.campaign
      /\ \A l \in LeadIds :
           /\ campaign_leads[l].status = r.start.rows[l]
           /\ leads[l].status = r.start.statuses[l]
      /\ r.deliveries = <<>>
      /\ \A k \in 1..Len(r.previews) :
           campaign_leads[r.previews[k].lead_id] = [status |-> "pending", sent_at |-> FALSE]

\* a preview answered on a campaign that an earlier send completed and that
\* got a new lead since: the campaign is still completed, the new row pending
C30_Witness ==
  \E p \in Procs :
    /\ run[p].kind = "preview" /\ run[p].pc = "done" /\ run[p].response = "ok"
    /\ Len(run[p].previews) = 1
    /\ campaign.status = "completed" /\ Len(messages) > 0
    /\ campaign_leads[run[p].previews[1].lead_id].status = "pending"

\* ----- C31
\* the value a recognized placeholder stands for, and the token itself for
\* any other token
ValueOf(tok, row, sett) ==
  LET reps == Replacements(row, sett)
      hits == {k \in 1..Len(reps) : reps[k][1] = tok}
  IN IF hits = {} THEN tok ELSE reps[CHOOSE k \in hits : TRUE][2]

\* the template with every recognized placeholder replaced by its value
\* (nothing for a missing value) and every other token kept
Substituted(template, row, sett) ==
  SelectSeq([k \in 1..Len(template) |-> ValueOf(template[k], row, sett)],
            LAMBDA x : x # "")

\* C31 as stated: the subject and body of every preview item and of every
\* recipient resolved from the templates are the templates with each
\* recognized placeholder replaced by its value and the other tokens kept.
C31_PlaceholdersReplacedByValues ==
  \A p \in Procs :
    LET r == run[p] IN
    /\ r.kind = "preview" =>
         \A k \in 1..Len(r.previews) :
           /\ r.previews[k].subject =
                Substituted(r.campaign.subject_template, r.pendingLeads[k], r.settings)
           /\ r.previews[k].body =
                Substituted(r.campaign.body_template, r.pendingLeads[k], r.settings)
    /\ r.kind = "send" =>
         \A k \in 1..Len(r.resolved) :
           /\ r.resolved[k].subject =
                Substituted(r.campaign.subject_template, r.pendingLeads[k], r.settings)
           /\ r.resolved[k].body =
                Substituted(r.campaign.body_template, r.pendingLeads[k], r.settings)

\* ----- C32
\* the recipients of a send run whose content generation failed
GenerationFailed(r) ==
  {r.attempts[k] : k \in 1..Len(r.attempts)} \
    {r.resolved[k].lead_id : k \in 1..Len(r.resolved)}

\* C32: a recipient whose content generation fails in sendCampaign has no
\* Message and no delivery attempt, its row is failed, its Lead status is the
\* one it had when the run started, it is counted in failed (with one error
\* entry), and the run goes on to the other recipients and answers normally.
C32_GenerationFailureIsolated ==
  \A p \in Procs :
    LET r == run[p] IN
    r.kind = "send" =>
      /\ \A l \in GenerationFailed(r) :
           /\ \A k \in 1..Len(messages) : messages[k].lead_id # l
           /\ \A k \in 1..Len(r.deliveries) : r.deliveries[k].lead_id # l
           /\ campaign_leads[l].status = "failed"
           /\ leads[l].status = r.start.statuses[l]
      /\ r.results.failed = Cardinality(GenerationFailed(r))
      /\ Len(r.results.errors) = Cardinality(GenerationFailed(r))
      /\ r.pc = "done" /\ r.response # "nopending" =>
           /\ r.response = "ok"
           /\ Len(r.attempts) = Len(r.pendingLeads)

\* a finished run in which the first recipient failed at generation and the
\* second one was sent
C32_Witness ==
  \E p \in Procs :
    LET r == run[p] IN
    /\ r.kind = "send" /\ r.pc = "done" /\ r.response = "ok"
    /\ Len(r.pendingLeads) = 2
    /\ r.attempts[1] \in GenerationFailed(r)
    /\ r.results.failed = 1 /\ r.results.sent = 1
    /\ Len(messages) = 1

\* ----- C33
\* C33 as stated: a campaign whose status is completed has no CampaignLead
\* row in status pending.
C33_CompletedHasNoPending ==
  campaign.status = "completed" =>
    \A l \in LeadIds : campaign_leads[l].status # "pending"

\* ----- C34
\* the selected previews of a send-previews run whose lead had no pending row
\* in the campaign when the run started
NotPendingAtStart(r) ==
  {l \in LeadIds : /\ \E k \in 1..Len(r.pendingLeads) : r.pendingLeads[k].lead_id = l
                   /\ r.start.rows[l] # "pending"}

\* C34 as stated: for a selected preview whose lead has no row in the
\* campaign, or a row that is already sent or failed, sendCampaignPreviews
\* records no Message, attempts no delivery, changes no Lead or CampaignLead
\* status and does not count it in sent.
C34_PreviewsActOnPendingOnly ==
  \A p \in Procs :
    LET r == run[p] IN
    r.kind = "previews" =>
      /\ \A l \in NotPendingAtStart(r) :
           /\ \A k \in (r.start.messages + 1)..Len(messages) : messages[k].lead_id # l
           /\ \A k \in 1..Len(r.deliveries) : r.deliveries[k].lead_id # l
           /\ leads[l].status = r.start.statuses[l]
           /\ campaign_leads[l].status = r.start.rows[l]
      /\ r.results.sent <= Len(r.pendingLeads) - Cardinality(NotPendingAtStart(r))

\* ----- C35
\* the rows that were pending when the run started
PendingAtStart(r) == {l \in LeadIds : r.start.rows[l] = "pending"}

\* a finished sendCampaign run counted every row that was pending at its start
SendCountsEveryRecipient(r) ==
  r.results.sent + r.results.failed = Cardinality(PendingAtStart(r))

\* C35 as stated: when a send run has finished, sent + failed is the number
\* of rows pending at its start (sendCampaign), respectively the number of
\* previews with selected=true (sendCampaignPreviews).
C35_EveryRecipientCountedOnce ==
  \A p \in Procs :
    LET r == run[p] IN
    r.pc = "done" =>
      /\ r.kind = "send" => SendCountsEveryRecipient(r)
      /\ r.kind = "previews" =>
           r.results.sent + r.results.failed = Len(SelectedPreviews(r.previews))

\* ----- C36
\* C36 as stated: a sendCampaignPreviews request without a selected preview
\* leaves the campaign's status and rollup counter as they were when it
\* loaded the campaign, and its result is sent = 0, failed = 0.
C36_NoSelectionIsNoOp ==
  \A p \in Procs :
    LET r == run[p] IN
    (r.kind = "previews" /\ SelectedPreviews(r.previews) = <<>>) =>
      /\ campaign.status = r.campaign.status
      /\ campaign.total_sent = r.campaign.total_sent
      /\ r.results.sent = 0 /\ r.results.failed = 0

\* ----- C37
\* the recipient a send run is working on
Recipient(p) == run[p].pendingLeads[run[p].i].lead_id

\* C37 as stated: whenever a sendCampaign run delivers to a recipient and
\* records its Message, the recipient's row in the campaign is pending at
\* that moment.
C37_DeliversToPendingMembersOnly ==
  [][
     \A p \in Procs :
       SendDeliver(p) => campaign_leads[Recipient(p)].status = "pending"
  ]_vars

\* ----- C38
\* the leads that were not among the pending rows the run loaded and that
\* have a row in the campaign now, which was added since
AddedDuringRun(r) ==
  {l \in LeadIds \ PendingAtStart(r) :
     campaign_leads[l].status # "absent" /\ r.start.rows[l] = "absent"}

CallsFor(r, l) == {k \in 1..Len(r.deliveries) : r.deliveries[k].lead_id = l}

\* C39: in a sendCampaign or sendCampaignPreviews run every recipient has at
\* most one provider call, and when the email API key is configured no call
\* goes to the SMTP relay, whatever the outcome of the API call and whether or
\* not SMTP is configured.
C39_AtMostOneProviderPerRecipient ==
  \A p \in Procs :
    LET r == run[p] IN
    r.kind \in {"send", "previews"} =>
      /\ \A l \in LeadIds : Cardinality(CallsFor(r, l)) <= 1
      /\ r.settings.zoho_api_key =>
           \A k \in 1..Len(r.deliveries) : r.deliveries[k].provider = "zoho"

\* a finished sendCampaign run with both providers configured whose API call
\* failed: the recipient has that one call, no SMTP call, and its Message
C39_Witness ==
  \E p \in Procs :
    LET r == run[p] IN
    /\ r.kind = "send" /\ r.pc = "done"
    /\ r.settings.zoho_api_key /\ r.settings.smtp
    /\ \E l \in LeadIds :
         /\ Cardinality(CallsFor(r, l)) = 1
         /\ \A k \in CallsFor(r, l) :
              r.deliveries[k].provider = "zoho" /\ r.deliveries[k].outcome # "ok"
         /\ \E m \in 1..Len(messages) : messages[m].lead_id = l

\* the same for a finished sendCampaignPreviews run
C39_WitnessPreviews ==
  \E p \in Procs :
    LET r == run[p] IN
    /\ r.kind = "previews" /\ r.pc = "done"
    /\ r.settings.zoho_api_key /\ r.settings.smtp
    /\ \E l \in LeadIds :
         /\ Cardinality(CallsFor(r, l)) = 1
         /\ \A k \in CallsFor(r, l) :
              r.deliveries[k].provider = "zoho" /\ r.deliveries[k].outcome # "ok"
         /\ \E m \in 1..Len(messages) : messages[m].lead_id = l
====
